---- MODULE Spec2Model ----
(***************************************************************************)
(* X11 clipboard engine of arboard (src/platform/linux/x11.rs): the        *)
(* per-selection store, the write and read paths, the request server loop, *)
(* the convert/INCR sub-protocol and the last-handle teardown.             *)
(*                                                                         *)
(* Fourteen specifications share the variables:                            *)
(*   Spec      two caller threads writing (no wait, wait forever), one of  *)
(*             them reading and clearing, other clients, the server loop   *)
(*   SpecData  one caller with every payload shape, format list and wait,  *)
(*             clears, and the requests the server loop answers            *)
(*   SpecRead  a remote read (Inner::read / read_single) against an owner  *)
(*   SpecWait  one caller, every order of wait()/wait_until() on the       *)
(*             builder, the deadline of a wait passing                     *)
(*   SpecServe the server loop under every kind of event and failure       *)
(*   SpecUri   paths_from_uri_list on lists of file and other URIs         *)
(*   SpecLife  Clipboard::new / Drop on two threads, server loop exit      *)
(*   SpecHandover  the teardown of the last value and the manager handover *)
(*   SpecStray a remote read while another client sends unsolicited events *)
(*   SpecTeardown  the teardown with CLIPBOARD and PRIMARY written         *)
(*   SpecKinds two caller threads on two kinds and foreign SelectionClears *)
(*   SpecTargets  one written text and a request for every listed target   *)
(*   SpecLock  a writer, a reader, teardowns and the server loop: who      *)
(*             waits for whom                                              *)
(*   SpecCount the handover with events that arrived before the save       *)
(*             request and events that arrived after it                    *)
(***************************************************************************)
EXTENDS Integers, Sequences, FiniteSets, TLC

\* ------------------------------------------------------------------ bounds
MaxQueue == 1
MaxWrites == 2
MaxFormats == 2
MaxChunks == 2
MaxREvents == 3
MaxTicks == 2
MaxCalls == 2
MaxLines == 2

\* ------------------------------------------------------------ plain values
\* Option<T>: None is the empty sequence, Some(x) the one-element sequence.
None == <<>>
Some(x) == <<x>>
IsSome(o) == Len(o) = 1
Unwrap(o) == o[1]

Min(S) == CHOOSE x \in S : \A y \in S : x <= y

\* LinuxClipboardKind
Kinds == {"Clipboard", "Primary", "Secondary"}
\* a selection atom that is none of the three kinds
OTHER_SEL == "OTHER_SEL"
\* the X "None" atom / window
NONE == "NONE"

\* x11.rs:418 Inner::atom_of
atom_of(selection) ==
  CASE selection = "Clipboard" -> "CLIPBOARD"
    [] selection = "Primary"   -> "PRIMARY"
    [] selection = "Secondary" -> "SECONDARY"

\* x11.rs:434 Inner::kind_of
kind_of(atom) ==
  CASE atom = "CLIPBOARD" -> Some("Clipboard")
    [] atom = "PRIMARY"   -> Some("Primary")
    [] atom = "SECONDARY" -> Some("Secondary")
    [] OTHER              -> None

\* x11.rs:191 ClipboardData
ClipboardData(bytes, format) == [bytes |-> bytes, format |-> format]

\* mod.rs:13 KDE_EXCLUSION_HINT ("secret"), as a byte string of the model
KDE_EXCLUSION_HINT == <<9>>

\* caller threads
Threads == {"t1", "t2"}
\* byte strings the callers write
TextA == <<1>>
TextB == <<2>>
HtmlH == <<3>>

\* mod.rs:175 WaitConfig
WaitConfigs == {"None", "Forever", "Until"}

\* Result values
Ok(d) == [tag |-> "Ok", bytes |-> d.bytes, format |-> d.format]
OkUnit == [tag |-> "Ok", bytes |-> <<>>, format |-> "()"]
Err(e) == [tag |-> "Err", bytes |-> <<>>, format |-> e]
\* what a remote owner served (the convert sub-protocol is SpecRead's)
Remote == [tag |-> "Remote", bytes |-> <<>>, format |-> "?"]
NoRes == [tag |-> "-", bytes |-> <<>>, format |-> "-"]
CNA == Err("ContentNotAvailable")

\* ownership of a selection as the X server records it
Me == "me"
Other == "other"
NoOwner == "none"

VARIABLES
  data,           \* Selection.data of each kind: Option<Vec<ClipboardData>>
  dlock,          \* holder of the write side of Selection.data's RwLock, or "free"
  mutex,          \* holder of Selection.mutex, or "free"
  stamp,          \* content of Selection.mutex: None or Some(who recorded it last)
  waiting,        \* threads blocked on Selection.data_changed
  owner,          \* the X server's owner of each selection
  evq,            \* events queued on the serving connection
  srv,            \* position of the server loop
  sent,           \* requests the server loop sent while handling the latest event
  serve_stopped,  \* Inner.serve_stopped
  pc,             \* position of each caller thread
  arg,            \* arguments of the call each caller thread is in
  ret,            \* history: the call that returned or the request served in the last step
  lastw,          \* history: the latest asserted write of each kind and what followed it
  nwrites          \* writes begun (bounds the exploration)

\* the main variables but ret
svars == <<data, dlock, mutex, stamp, waiting, owner, evq, srv, sent,
           serve_stopped, pc, arg, lastw, nwrites>>

mvars == <<svars, ret>>

\* SpecRead: one Inner::read that goes to the owner of the selection
VARIABLES
  rformats,       \* the formats argument of read
  ri,             \* index of the format being tried (the for loop of read)
  rpc,            \* position of the reader
  prop,           \* ARBOARD_CLIPBOARD on the reader's window: Option<[type, value]>
  revq,           \* events queued on the reader's connection
  using_incr,     \* read_single's using_incr
  incr_data,      \* read_single's incr_data
  now,            \* the clock (ms)
  timeout_end,    \* read_single's timeout_end
  oreq,           \* convert requests the owner has received and not yet answered
  ochunks,        \* INCR chunks the owner still has to write, as Option<Seq>
  osent,          \* history: the chunks the owner wrote in the current INCR transfer
  rlog,           \* history: the outcome of each read_single of this read
  rres,           \* the result of read
  nticks          \* clock advances in the current read_single (bounds the exploration)

rvars == <<rformats, ri, rpc, prop, revq, using_incr, incr_data, now, timeout_end,
           oreq, ochunks, osent, rlog, rres, nticks>>

\* SpecLife: the Clipboard handles, the teardown and the manager handover
VARIABLES
  handles,        \* Clipboard values holding a share of the context
  registry,       \* the global CLIPBOARD holds Some(GlobalClipboard)
  glock,          \* holder of the global CLIPBOARD mutex, or "free"
  ninst,          \* contexts created so far (bounds the exploration)
  orphans,        \* Clipboard values on contexts that were replaced in the registry
  spawned,        \* history: server threads started for the latest context
  handover_state, \* Inner.handover_state
  written,        \* serve_requests' written
  notified,       \* serve_requests' notified
  window,         \* the X window of the context exists
  mgr,            \* SAVE_TARGETS conversions the context requested of the manager
  tdn             \* history: what the last-handle teardown found and did

\* the registry lock and the bookkeeping of contexts
gvars == <<glock, ninst, orphans, spawned>>

lvars == <<handles, registry, handover_state, written, notified, window, mgr, tdn,
           gvars>>

\* SpecUri: one call of paths_from_uri_list
VARIABLES
  ulines,         \* history: the lines the URI list was made of, with their endings
  paths           \* the result of paths_from_uri_list, as Option<Seq>

fvars == <<ulines, paths>>

vars == <<mvars, rvars, lvars, fvars>>

\* variables the actions of Spec leave alone
xvars == <<rvars, lvars, fvars>>

\* variables of SpecLife the server loop leaves alone
lxvars == <<handles, registry, window, mgr, tdn, gvars>>

\* ------------------------------------------------------------------ facade
\* x11.rs:935 Clipboard::add_clipboard_exclusions
add_clipboard_exclusions(exclude_from_history, d) ==
  IF exclude_from_history
    THEN Append(d, ClipboardData(KDE_EXCLUSION_HINT, "X_KDE_PASSWORDMANAGERHINT"))
    ELSE d

\* x11.rs:967 Clipboard::set_text: the payload list handed to Inner::write
set_text(message, exclude_from_history) ==
  add_clipboard_exclusions(exclude_from_history,
                           <<ClipboardData(message, "UTF8_STRING")>>)

\* x11.rs:991 Clipboard::set_html: the payload list handed to Inner::write
set_html(html, alt, exclude_from_history) ==
  add_clipboard_exclusions(exclude_from_history,
    (IF IsSome(alt) THEN <<ClipboardData(Unwrap(alt), "UTF8_STRING")>> ELSE <<>>)
      \o <<ClipboardData(html, "HTML")>>)

\* a wait_until that keeps what an earlier wait() set
wait_until_keep(w) == IF w = "None" THEN "Until" ELSE w

\* mod.rs:194-197 Set::new: wait is WaitConfig::default(), which is None (182-184)
Set_new == "None"

\* mod.rs:315-318 SetExtLinux::wait
wait(w) == "Forever"

\* mod.rs:325-328 SetExtLinux::wait_until
wait_until(w) == "Until"

\* mod.rs:194-204, 315-328: the wait configuration of the builder after the calls
\* of q, in order, on a new Set
platform_wait(q) ==
  LET f[i \in 0..Len(q)] ==
        IF i = 0 THEN Set_new
        ELSE IF q[i] = "wait" THEN wait(f[i - 1]) ELSE wait_until(f[i - 1])
  IN  f[Len(q)]

\* the shortest sequence of builder calls that sets the wait configuration w
OneSet(w) ==
  IF w = "None" THEN <<>> ELSE IF w = "Forever" THEN <<"wait">> ELSE <<"wait_until">>

\* the builder calls of the writes: one sequence for each of the configurations ws
Sets(ws) == { OneSet(w) : w \in ws }

\* every sequence of at most MaxCalls calls of wait() and wait_until(deadline)
AllSets ==
  UNION { [1..n -> {"wait", "wait_until"}] : n \in 0..MaxCalls }

\* the write calls of SpecData: every shape of payload list the facade builds
WriteCalls ==
  { [data |-> set_text(TextA, e), excl |-> e] : e \in BOOLEAN }
  \cup { [data |-> set_html(HtmlH, a, e), excl |-> e] :
           a \in {None, Some(TextB)}, e \in BOOLEAN }

\* the write calls of Spec: two plain texts
TextCalls == { [data |-> set_text(m, FALSE), excl |-> FALSE] : m \in {TextA, TextB} }

\* the kinds the callers and the other clients of Spec use
TwoKinds == {"Clipboard", "Primary"}

\* x11.rs:948 Clipboard::get_text: the format list handed to Inner::read
get_text_formats ==
  <<"UTF8_STRING", "UTF8_MIME_0", "UTF8_MIME_1", "STRING", "TEXT", "TEXT_MIME_UNKNOWN">>
\* x11.rs:985 Clipboard::get_html
get_html_formats == <<"HTML">>

\* format lists Inner::read is called with in SpecData: those of the facade, the
\* single format of a written payload, and the two two-format preference lists
ReadFormats ==
  { get_text_formats, get_html_formats, <<"UTF8_STRING">>,
    <<"UTF8_STRING", "HTML">>, <<"HTML", "UTF8_STRING">> }

\* ------------------------------------------------------------- pure parts
HasFormat(list, f) == \E i \in 1..Len(list) : list[i].format = f

\* x11.rs:299-309 Inner::read, the branch taken when this process is the owner
read_local(store, formats) ==
  IF IsSome(store)
    THEN LET data_list == Unwrap(store)
             hits == { i \in 1..Len(data_list) :
                         \E j \in 1..Len(formats) : formats[j] = data_list[i].format }
         IN  IF hits = {} THEN Err("ContentNotAvailable")
                          ELSE Ok(data_list[Min(hits)])
    ELSE Err("ContentNotAvailable")

RECURSIVE data_targets(_)
\* x11.rs:612-624: the targets pushed for each stored payload
data_targets(data_list) ==
  IF data_list = <<>> THEN <<>>
  ELSE LET d == Head(data_list)
       IN  (<<d.format>> \o
            (IF d.format = "UTF8_STRING" THEN <<"UTF8_MIME_0", "UTF8_MIME_1">> ELSE <<>>))
           \o data_targets(Tail(data_list))

SelectionNotify(event, property) ==
  [req |-> "SendEvent:SelectionNotify", requestor |-> event.requestor,
   selection |-> event.selection, target |-> event.target, property |-> property,
   type |-> "-", value |-> <<>>]

ChangeProperty(event, type, value) ==
  [req |-> "ChangeProperty", requestor |-> event.requestor,
   selection |-> event.selection, target |-> event.target, property |-> event.property,
   type |-> type, value |-> value]

\* a TARGETS answer that lists SAVE_TARGETS whatever is stored
targets_reply_save(event, store) ==
  <<ChangeProperty(event, "ATOM",
                   (IF IsSome(store) THEN data_targets(Unwrap(store)) ELSE <<>>)
                   \o <<"TARGETS", "SAVE_TARGETS">>),
    SelectionNotify(event, event.property)>>

\* x11.rs:603-658 Inner::handle_selection_request, TARGETS branch
targets_reply(event, store) ==
  LET excluded == IsSome(store) /\ HasFormat(Unwrap(store), "X_KDE_PASSWORDMANAGERHINT")
      targets  == (IF IsSome(store) THEN data_targets(Unwrap(store)) ELSE <<>>)
                  \o <<"TARGETS">>
                  \o (IF ~excluded THEN <<"SAVE_TARGETS">> ELSE <<>>)
  IN  <<ChangeProperty(event, "ATOM", targets), SelectionNotify(event, event.property)>>

\* x11.rs:659-686 Inner::handle_selection_request, data branch
data_reply(event, store) ==
  IF IsSome(store) /\ HasFormat(Unwrap(store), event.target)
    THEN LET data_list == Unwrap(store)
             i == Min({ n \in 1..Len(data_list) : data_list[n].format = event.target })
         IN  <<ChangeProperty(event, event.target, data_list[i].bytes),
               SelectionNotify(event, event.property)>>
    ELSE <<SelectionNotify(event, NONE)>>

\* x11.rs:592-709 Inner::handle_selection_request: the requests it sends
handle_selection_request(event, d) ==
  IF kind_of(event.selection) = None
    THEN <<>>
    ELSE LET store == d[Unwrap(kind_of(event.selection))]
         IN  IF event.target = "TARGETS" THEN targets_reply(event, store)
                                         ELSE data_reply(event, store)

\* x11.rs:101-102
LONG_TIMEOUT_DUR == 4000
SHORT_TIMEOUT_DUR == 10

\* the reader of SpecRead does nothing in the other specifications
RIdle ==
  /\ rformats = <<>> /\ ri = 1 /\ rpc = "off" /\ prop = None /\ revq = <<>>
  /\ using_incr = FALSE /\ incr_data = <<>> /\ now = 0 /\ timeout_end = 0
  /\ oreq = <<>> /\ ochunks = None /\ osent = <<>> /\ rlog = <<>> /\ rres = NoRes
  /\ nticks = 0

\* ---------------------------------------------------------- Spec: helpers
NoArg == [op |-> "-", k |-> "-", data |-> <<>>, excl |-> FALSE, wait |-> "-",
          formats |-> <<>>, set |-> <<>>]

NoRet == [t |-> "-", op |-> "-", k |-> "-", wait |-> "-", set |-> <<>>,
          val |-> NoRes, cause |-> "-"]

\* the history entry of a call of thread t returning val
Return(t, a, val) ==
  [t |-> t, op |-> a.op, k |-> a.k, wait |-> a.wait, set |-> a.set, val |-> val,
   cause |-> "-"]

Event(type, selection, target) ==
  [type |-> type, selection |-> selection, target |-> target,
   requestor |-> "REQ", property |-> "DST"]

\* the history entry of a kind after something happened to the selection
Mark(k, what) ==
  IF IsSome(lastw[k])
    THEN [lastw EXCEPT ![k] = Some([Unwrap(@) EXCEPT !.since = @ \cup {what}])]
    ELSE lastw

\* the history entry of a kind when thread t returns Ok from its write
Returned(t, k) ==
  IF IsSome(lastw[k]) /\ Unwrap(lastw[k]).by = t
    THEN [lastw EXCEPT ![k] = Some([Unwrap(@) EXCEPT !.done = TRUE])]
    ELSE lastw

\* the latest asserted write of kind k has returned Ok and nothing happened to the
\* selection since its assertion: no other client took it, no clear, no local write
CleanWrite(k) ==
  /\ IsSome(lastw[k])
  /\ Unwrap(lastw[k]).done
  /\ Unwrap(lastw[k]).since = {}

\* the history entry of a kind when thread t begins a read of it: the read is
\* recorded when it begins after the latest write returned with nothing since
ReadBegun(t, k) ==
  IF CleanWrite(k)
    THEN [lastw EXCEPT ![k] = Some([Unwrap(@) EXCEPT !.reads = @ \cup {t}])]
    ELSE lastw

\* the history entry of a step of the server loop that handles a request for the
\* data of a kind while thread t is blocked in the wait of its write to that kind
Served(event) ==
  LET ko == kind_of(event.selection) IN
    IF /\ IsSome(ko) /\ event.target # "TARGETS"
       /\ \E t \in Threads : pc[t] = "w_wait" /\ arg[t].k = Unwrap(ko)
      THEN LET t == CHOOSE u \in Threads : pc[u] = "w_wait" /\ arg[u].k = Unwrap(ko)
           IN  [NoRet EXCEPT !.t = t, !.op = "serve", !.k = Unwrap(ko)]
      ELSE NoRet

\* the history entry of a kind when thread t's read of it ends
ReadEnded(t, k) ==
  IF IsSome(lastw[k])
    THEN [lastw EXCEPT ![k] = Some([Unwrap(@) EXCEPT !.reads = @ \ {t}])]
    ELSE lastw

\* positions of a thread inside Drop, its Clipboard value still counted
DropPcs == {"d_is_owner", "d_read_data", "d_clear", "d_convert", "d_wait", "d_woken",
            "d_destroy", "d_join", "d_release"}

\* a Clipboard value of the context exists that no thread is dropping
has_handle == handles - Cardinality({u \in Threads : pc[u] \in DropPcs}) >= 1

\* a Clipboard value of the context exists that no thread is dropping and no
\* thread is making a call through (a call borrows the value it is made through)
can_drop ==
  LET InCall == {u \in Threads : pc[u] \notin DropPcs \cup {"idle", "d_release_old"}}
  IN  handles - Cardinality({u \in Threads : pc[u] \in DropPcs})
              - (IF InCall = {} THEN 0 ELSE 1) >= 1

\* a notification that wakes the waiters of every kind
notify_every_kind(k) ==
  [u \in Threads |-> IF \E j \in Kinds : u \in waiting[j] THEN "w_woken" ELSE pc[u]]

\* Condvar::notify_all on data_changed of kind k: every waiter leaves the wait
Woken(k) == [u \in Threads |-> IF u \in waiting[k] THEN "w_woken" ELSE pc[u]]

\* ------------------------------------------------------ Spec: Inner::write
\* a write that never finds the server loop stopped
stopped_check_never == FALSE

\* x11.rs:246 self.serve_stopped.load(..)
stopped_check == serve_stopped

\* x11.rs:246-255: the stopped check, then the data write lock is taken and the
\* stored set replaced
WriteBegin(t, calls, kinds, sets) ==
  /\ pc[t] = "idle" /\ has_handle /\ nwrites < MaxWrites
  /\ \E c \in calls, k \in kinds, q \in sets :
       LET a == [op |-> "write", k |-> k, data |-> c.data, excl |-> c.excl,
                 wait |-> platform_wait(q), formats |-> <<>>, set |-> q]
       IN  IF stopped_check
             THEN /\ ret' = Return(t, a, Err("Unknown"))
                  /\ UNCHANGED <<pc, arg, dlock, data, lastw>>
             ELSE /\ dlock[k] = "free"
                  /\ dlock' = [dlock EXCEPT ![k] = t]
                  /\ data' = [data EXCEPT ![k] = Some(c.data)]
                  /\ lastw' = Mark(k, "write")
                  /\ pc' = [pc EXCEPT ![t] = "w_assert"]
                  /\ arg' = [arg EXCEPT ![t] = a]
                  /\ ret' = NoRet
  /\ nwrites' = nwrites + 1
  /\ UNCHANGED <<mutex, stamp, waiting, owner, evq, srv, sent, serve_stopped, xvars>>

\* a write that reports every failure of the assertion as Unknown
write_error_unknown(r) == Err("Unknown")

\* x11.rs:262, 264: the error of a failed set_selection_owner is mapped to
\* ClipboardOccupied, the error of a failed flush to Unknown
write_error(r) ==
  IF r = "set_selection_owner" THEN Err("ClipboardOccupied") ELSE Err("Unknown")

\* x11.rs:259-264: set_selection_owner and flush, either of which may fail
WriteAssert(t) ==
  /\ pc[t] = "w_assert"
  /\ \E r \in {"ok", "set_selection_owner", "flush"} :
       IF r = "ok"
         THEN \* a request naming a destroyed window has no effect on the selection
              /\ owner' = IF window THEN [owner EXCEPT ![arg[t].k] = Me] ELSE owner
              /\ lastw' = [lastw EXCEPT ![arg[t].k] =
                             Some([data |-> arg[t].data, by |-> t, done |-> FALSE,
                                   since |-> {}, reads |-> {}])]
              /\ pc' = [pc EXCEPT ![t] = "w_notify"]
              /\ ret' = NoRet
              /\ UNCHANGED <<dlock, arg>>
         ELSE \* the `?` returns: the data guard is dropped, the store stays written
              /\ dlock' = [dlock EXCEPT ![arg[t].k] = "free"]
              /\ ret' = [Return(t, arg[t], write_error(r)) EXCEPT !.cause = r]
              /\ pc' = [pc EXCEPT ![t] = "idle"]
              /\ arg' = [arg EXCEPT ![t] = NoArg]
              /\ UNCHANGED <<owner, lastw>>
  /\ UNCHANGED <<data, mutex, stamp, waiting, evq, srv, sent, serve_stopped,
                 nwrites, xvars>>

\* x11.rs:269-278: lock the mutex, record the time, notify_all; WaitConfig::None returns
WriteNotify(t) ==
  /\ pc[t] = "w_notify"
  /\ mutex[arg[t].k] = "free"
  /\ stamp' = [stamp EXCEPT ![arg[t].k] = Some(t)]
  /\ waiting' = [waiting EXCEPT ![arg[t].k] = {}]
  /\ IF arg[t].wait = "None"
       THEN /\ pc' = [Woken(arg[t].k) EXCEPT ![t] = "idle"]
            /\ dlock' = [dlock EXCEPT ![arg[t].k] = "free"]
            /\ ret' = Return(t, arg[t], OkUnit)
            /\ lastw' = Returned(t, arg[t].k)
            /\ arg' = [arg EXCEPT ![t] = NoArg]
            /\ UNCHANGED mutex
       ELSE /\ pc' = [Woken(arg[t].k) EXCEPT ![t] = "w_drop"]
            /\ mutex' = [mutex EXCEPT ![arg[t].k] = t]
            /\ ret' = NoRet
            /\ UNCHANGED <<dlock, lastw, arg>>
  /\ UNCHANGED <<data, owner, evq, srv, sent, serve_stopped, nwrites, xvars>>

\* a waiting write that keeps its data guard
keep_data_guard(l, k) == l

\* x11.rs:280 / 285: drop(data_guard)
drop_data_guard(l, k) == [l EXCEPT ![k] = "free"]

\* x11.rs:279-280 / 284-285: the arm of a waiting write drops the data guard
WriteDropGuard(t) ==
  /\ pc[t] = "w_drop"
  /\ dlock' = drop_data_guard(dlock, arg[t].k)
  /\ pc' = [pc EXCEPT ![t] = "w_prewait"]
  /\ ret' = NoRet
  /\ UNCHANGED <<data, mutex, stamp, waiting, owner, evq, srv, sent, serve_stopped,
                 arg, lastw, nwrites, xvars>>

\* x11.rs:281 / 286: Condvar::wait[_until] releases the mutex and blocks
WriteWait(t) ==
  /\ pc[t] = "w_prewait"
  /\ mutex' = [mutex EXCEPT ![arg[t].k] = "free"]
  /\ waiting' = [waiting EXCEPT ![arg[t].k] = @ \cup {t}]
  /\ pc' = [pc EXCEPT ![t] = "w_wait"]
  /\ ret' = NoRet
  /\ UNCHANGED <<data, dlock, stamp, owner, evq, srv, sent, serve_stopped, arg, lastw,
                 nwrites, xvars>>

\* x11.rs:286: the deadline of wait_until passes
WriteTimeout(t) ==
  /\ pc[t] = "w_wait" /\ arg[t].wait = "Until"
  /\ waiting' = [waiting EXCEPT ![arg[t].k] = @ \ {t}]
  /\ pc' = [pc EXCEPT ![t] = "w_woken"]
  /\ ret' = NoRet
  /\ UNCHANGED <<data, dlock, mutex, stamp, owner, evq, srv, sent, serve_stopped, arg,
                 lastw, nwrites, xvars>>

\* x11.rs:281-290: the wait re-locks the mutex and write returns Ok(())
WriteReturn(t) ==
  /\ pc[t] = "w_woken"
  /\ mutex[arg[t].k] = "free"
  /\ ret' = Return(t, arg[t], OkUnit)
  /\ lastw' = Returned(t, arg[t].k)
  /\ pc' = [pc EXCEPT ![t] = "idle"]
  /\ arg' = [arg EXCEPT ![t] = NoArg]
  /\ UNCHANGED <<data, dlock, mutex, stamp, waiting, owner, evq, srv, sent,
                 serve_stopped, nwrites, xvars>>

\* ------------------------------------------------------- Spec: Inner::read
\* x11.rs:298 is_owner, and x11.rs:314-328 the remote branch (SpecRead models it)
ReadBegin(t, kinds, formats) ==
  /\ pc[t] = "idle" /\ has_handle
  /\ \E k \in kinds, f \in formats :
       LET a == [op |-> "read", k |-> k, data |-> <<>>, excl |-> FALSE, wait |-> "-",
                 formats |-> f, set |-> <<>>]
       IN  IF owner[k] = Me
             THEN /\ pc' = [pc EXCEPT ![t] = "r_local"]
                  /\ arg' = [arg EXCEPT ![t] = a]
                  /\ lastw' = ReadBegun(t, k)
                  /\ ret' = NoRet
             ELSE /\ ret' = Return(t, a, IF owner[k] = NoOwner THEN CNA ELSE Remote)
                  /\ UNCHANGED <<pc, arg, lastw>>
  /\ UNCHANGED <<data, dlock, mutex, stamp, waiting, owner, evq, srv, sent,
                 serve_stopped, nwrites, xvars>>

\* x11.rs:299-309: read the store under the data read lock
ReadLocal(t) ==
  /\ pc[t] = "r_local"
  /\ dlock[arg[t].k] = "free"
  /\ ret' = Return(t, arg[t], read_local(data[arg[t].k], arg[t].formats))
  /\ pc' = [pc EXCEPT ![t] = "idle"]
  /\ arg' = [arg EXCEPT ![t] = NoArg]
  /\ lastw' = ReadEnded(t, arg[t].k)
  /\ UNCHANGED <<data, dlock, mutex, stamp, waiting, owner, evq, srv, sent,
                 serve_stopped, nwrites, xvars>>

\* ------------------------------------------------------ Spec: Inner::clear
\* a clear that leaves the selection with its owner
relinquish_keep(o, k) == o

\* x11.rs:231-234 set_selection_owner(NONE, selection): the selection has no owner
relinquish(o, k) == [o EXCEPT ![k] = NoOwner]

\* x11.rs:229-238, 944-946 clear: the selection is given up through the X server,
\* which sends SelectionClear to the previous owner; the store is not touched;
\* results are the outcomes of the two requests the specification draws from
ClearResults == {"ok", "set_selection_owner", "flush"}

Clear(t, k, results) ==
  /\ pc[t] = "idle" /\ has_handle
  /\ owner[k] = Me => Len(evq) < MaxQueue
  /\ \E r \in results :
       IF r = "ok"
         THEN /\ owner' = relinquish(owner, k)
              /\ evq' = IF owner[k] = Me
                          THEN Append(evq, Event("SelectionClear", atom_of(k), "-"))
                          ELSE evq
              /\ lastw' = Mark(k, "clear")
              /\ ret' = Return(t, [NoArg EXCEPT !.op = "clear", !.k = k], OkUnit)
         ELSE /\ ret' = [Return(t, [NoArg EXCEPT !.op = "clear", !.k = k],
                                Err("Unknown")) EXCEPT !.cause = r]
              /\ UNCHANGED <<owner, evq, lastw>>
  /\ UNCHANGED nwrites
  /\ UNCHANGED <<data, dlock, mutex, stamp, waiting, srv, sent, serve_stopped,
                 pc, arg, xvars>>

\* ------------------------------------------------- Spec: the other clients
\* another client asserts ownership of the selection
OtherTakes(k) ==
  /\ owner[k] # Other
  /\ owner[k] = Me => Len(evq) < MaxQueue
  /\ owner' = [owner EXCEPT ![k] = Other]
  /\ evq' = IF owner[k] = Me
              THEN Append(evq, Event("SelectionClear", atom_of(k), "-"))
              ELSE evq
  /\ lastw' = Mark(k, "other")
  /\ ret' = NoRet
  /\ UNCHANGED <<data, dlock, mutex, stamp, waiting, srv, sent, serve_stopped, pc, arg,
                 nwrites, xvars>>

\* a window created without STRUCTURE_NOTIFY in its event mask: no event is sent
no_structure_notify(q, w) == q

\* x11.rs:149-154 STRUCTURE_NOTIFY is selected on the server window: the destruction
\* of the window, while it exists, is reported to it with a DestroyNotify
destroy_notify(q, w) == IF w THEN Append(q, Event("DestroyNotify", "-", "-")) ELSE q

\* another client destroys the window of the context: the X server reverts the
\* selections the window owned and reports the destruction to the window
OtherDestroys ==
  /\ window
  /\ window' = FALSE
  /\ owner' = [k \in Kinds |-> IF owner[k] = Me THEN NoOwner ELSE owner[k]]
  /\ evq' = destroy_notify(evq, window)
  /\ ret' = NoRet
  /\ UNCHANGED <<data, dlock, mutex, stamp, waiting, srv, sent, serve_stopped, pc, arg,
                 lastw, nwrites, rvars, fvars, handles, registry, handover_state, written,
                 notified, mgr, tdn, gvars>>

RequestTargets == {"TARGETS", "UTF8_STRING", "HTML"}

\* another client converts a selection this process owns (the X server forwards
\* it as a SelectionRequest), or sends a SelectionRequest naming a foreign selection
OtherRequests(sel, target) ==
  /\ Len(evq) < MaxQueue
  /\ sel # OTHER_SEL => owner[Unwrap(kind_of(sel))] = Me
  /\ evq' = Append(evq, Event("SelectionRequest", sel, target))
  /\ ret' = NoRet
  /\ UNCHANGED <<data, dlock, mutex, stamp, waiting, owner, srv, sent, serve_stopped,
                 pc, arg, lastw, nwrites, xvars>>

\* ------------------------------------------------- Spec: serve_requests
\* a SelectionClear arm that leaves the stored set in place
selection_clear_keep(d, k) == d

\* x11.rs:834-835 SelectionClear arm: *data_guard = None
selection_clear(d, k) == [d EXCEPT ![k] = None]

\* a SelectionClear arm that notifies without taking the mutex
clear_arm_no_mutex(k) == TRUE

\* x11.rs:842 SelectionClear arm: selection.mutex.lock() returns once the mutex is free
clear_arm_mutex(k) == mutex[k] = "free"

\* x11.rs:826-835 SelectionClear arm: take the data write lock, set the store to None
ServeClearStore ==
  /\ srv = "wait" /\ evq # <<>> /\ Head(evq).type = "SelectionClear"
  /\ LET ko == kind_of(Head(evq).selection) IN
       IF IsSome(ko)
         THEN /\ dlock[Unwrap(ko)] = "free"
              /\ dlock' = [dlock EXCEPT ![Unwrap(ko)] = "server"]
              /\ data' = selection_clear(data, Unwrap(ko))
              /\ srv' = "clear_notify"
              /\ UNCHANGED evq
         ELSE /\ evq' = Tail(evq)
              /\ UNCHANGED <<dlock, data, srv>>
  /\ sent' = <<>>
  /\ ret' = NoRet
  /\ UNCHANGED <<mutex, stamp, waiting, owner, serve_stopped, pc, arg, lastw, nwrites,
                 xvars>>

\* x11.rs:842-844 SelectionClear arm: lock the mutex, notify_all, drop both guards
ServeClearNotify ==
  /\ srv = "clear_notify"
  /\ LET k == Unwrap(kind_of(Head(evq).selection)) IN
       /\ clear_arm_mutex(k)
       /\ waiting' = [waiting EXCEPT ![k] = {}]
       /\ pc' = Woken(k)
       /\ dlock' = [dlock EXCEPT ![k] = "free"]
  /\ evq' = Tail(evq)
  /\ srv' = "wait"
  /\ ret' = NoRet
  /\ UNCHANGED <<data, mutex, stamp, owner, sent, serve_stopped, arg, lastw, nwrites,
                 xvars>>

\* a loop that puts the handover back to Idle
handover_reset == "Idle"

\* x11.rs:800-808 handover_finished: the state the server loop writes before it
\* notifies handover_cv
handover_finished == "Finished"

\* x11.rs:800-808 handover_finished: notify_all on handover_cv
HandoverWoken == [u \in Threads |-> IF pc[u] = "d_wait" THEN "d_woken" ELSE pc[u]]

\* x11.rs:846-873 SelectionRequest arm: answer the request, then the handover
\* bookkeeping
ServeRequest ==
  /\ srv = "wait" /\ evq # <<>> /\ Head(evq).type = "SelectionRequest"
  /\ LET ko == kind_of(Head(evq).selection) IN
       IsSome(ko) => dlock[Unwrap(ko)] = "free"
  /\ sent' = handle_selection_request(Head(evq), data)
  /\ IF handover_state = "InProgress" /\ Head(evq).target # "TARGETS"
       THEN /\ written' = TRUE
            /\ IF notified
                 THEN handover_state' = handover_finished /\ pc' = HandoverWoken
                 ELSE UNCHANGED <<handover_state, pc>>
       ELSE UNCHANGED <<written, handover_state, pc>>
  /\ tdn' = IF /\ handover_state = "InProgress" /\ Head(evq).target # "TARGETS"
               /\ handle_selection_request(Head(evq), data) # <<>>
              THEN [tdn EXCEPT !.served = TRUE]
              ELSE tdn
  /\ evq' = Tail(evq)
  /\ ret' = Served(Head(evq))
  /\ UNCHANGED <<data, dlock, mutex, stamp, waiting, owner, srv, serve_stopped, arg,
                 lastw, nwrites, notified, rvars, fvars, handles, registry, window, mgr,
                 gvars>>

\* x11.rs:874-901 SelectionNotify arm
ServeNotify ==
  /\ srv = "wait" /\ evq # <<>> /\ Head(evq).type = "SelectionNotify"
  /\ IF Head(evq).selection = "CLIPBOARD_MANAGER" /\ handover_state = "InProgress"
       THEN /\ notified' = TRUE
            /\ IF written
                 THEN handover_state' = handover_finished /\ pc' = HandoverWoken
                 ELSE UNCHANGED <<handover_state, pc>>
       ELSE UNCHANGED <<notified, handover_state, pc>>
  /\ tdn' = IF Head(evq).selection = "CLIPBOARD_MANAGER" /\ handover_state = "InProgress"
              THEN [tdn EXCEPT !.signalled = TRUE]
              ELSE tdn
  /\ evq' = Tail(evq)
  /\ sent' = <<>>
  /\ ret' = NoRet
  /\ UNCHANGED <<data, dlock, mutex, stamp, waiting, owner, srv, serve_stopped, arg,
                 lastw, nwrites, written, rvars, fvars, handles, registry, window, mgr,
                 gvars>>

\* a loop that gives up when the handling of a request fails
failed_request_returns == "exiting"

\* x11.rs:853-856: the error of handle_selection_request is logged and the loop
\* continues with the next event
failed_request_continues == "wait"

\* x11.rs:846-856 SelectionRequest arm when handle_selection_request fails on one
\* of its requests to the X server (change_property, send_event, flush): what it
\* sent before the failure stays sent, the handover bookkeeping is skipped
ServeRequestFails ==
  /\ srv = "wait" /\ evq # <<>> /\ Head(evq).type = "SelectionRequest"
  /\ LET ko == kind_of(Head(evq).selection) IN
       /\ IsSome(ko)
       /\ dlock[Unwrap(ko)] = "free"
  /\ LET reply == handle_selection_request(Head(evq), data) IN
       \E n \in 0..(Len(reply) - 1) : sent' = SubSeq(reply, 1, n)
  /\ srv' = failed_request_continues
  /\ evq' = Tail(evq)
  /\ ret' = NoRet
  /\ UNCHANGED <<data, dlock, mutex, stamp, waiting, owner, serve_stopped, pc, arg,
                 lastw, nwrites, xvars>>

\* x11.rs:902-905 the arm of every other event type: nothing is done
ServeOther ==
  /\ srv = "wait" /\ evq # <<>>
  /\ Head(evq).type \notin {"DestroyNotify", "SelectionClear", "SelectionRequest",
                             "SelectionNotify"}
  /\ evq' = Tail(evq)
  /\ sent' = <<>>
  /\ ret' = NoRet
  /\ UNCHANGED <<data, dlock, mutex, stamp, waiting, owner, srv, serve_stopped, pc,
                 arg, lastw, nwrites, xvars>>

\* x11.rs:149-154: an event another client causes or sends to the server window:
\* a property change (PROPERTY_CHANGE is selected), or a SelectionClear or
\* SelectionNotify it sends with SendEvent
OtherSends(type, sel) ==
  /\ window /\ Len(evq) < MaxQueue
  /\ evq' = Append(evq, Event(type, sel, "-"))
  /\ ret' = NoRet
  /\ UNCHANGED <<data, dlock, mutex, stamp, waiting, owner, srv, sent, serve_stopped,
                 pc, arg, lastw, nwrites, xvars>>

\* x11.rs:812-814, 821-825 DestroyNotify arm: the loop returns, the guard sets the flag
ServeDestroy ==
  /\ srv = "wait" /\ evq # <<>> /\ Head(evq).type = "DestroyNotify"
  /\ srv' = "exiting"
  /\ serve_stopped' = TRUE
  /\ evq' = Tail(evq)
  /\ sent' = <<>>
  /\ ret' = NoRet
  /\ UNCHANGED <<data, dlock, mutex, stamp, waiting, owner, pc, arg, lastw, nwrites,
                 xvars>>

\* x11.rs:812-820: wait_for_event fails, the loop returns and the guard sets the flag
ServeConnError ==
  /\ srv = "wait"
  /\ srv' = "exiting"
  /\ serve_stopped' = TRUE
  /\ ret' = NoRet
  /\ UNCHANGED <<data, dlock, mutex, stamp, waiting, owner, evq, sent, pc, arg, lastw,
                 nwrites, xvars>>

\* x11.rs:799, 925-929: serve_requests has returned, its share of the context is
\* dropped and the thread ends
ServeExit ==
  /\ srv = "exiting"
  /\ srv' = "stopped"
  /\ ret' = NoRet
  /\ UNCHANGED <<data, dlock, mutex, stamp, waiting, owner, evq, sent, serve_stopped,
                 pc, arg, lastw, nwrites, xvars>>

\* --------------------------------------------- SpecRead: the remote branch
\* an event on the reader's connection; window is the requestor of a
\* SelectionNotify, the window of a PropertyNotify
WinEvent(type, win, selection, target, property, state) ==
  [type |-> type, window |-> win, selection |-> selection, target |-> target,
   property |-> property, state |-> state]

\* an event for the reader's window
REvent(type, selection, target, property, state) ==
  WinEvent(type, "READER", selection, target, property, state)

PropertyNotify(state) == REvent("PropertyNotify", "-", "-", "ARBOARD_CLIPBOARD", state)

\* the X server's GetProperty(delete = true) with a type filter: a missing property
\* has type NONE; a property of another type is reported with its type, no value,
\* and is not deleted; a property of the asked type is returned and deleted
GetProperty(p, type) ==
  IF p = None THEN [type |-> NONE, value |-> <<>>, deleted |-> FALSE]
  ELSE IF Unwrap(p).type # type
    THEN [type |-> Unwrap(p).type, value |-> <<>>, deleted |-> FALSE]
    ELSE [type |-> type, value |-> Unwrap(p).value, deleted |-> TRUE]

\* the deletion of the property is reported to the reader's window
Deleted(q, r) == IF r.deleted THEN Append(q, PropertyNotify("DELETED")) ELSE q

\* a read loop that skips every failed attempt
read_decision_skip(res) == IF res.tag = "Ok" THEN "return" ELSE "continue"

\* x11.rs:317-326 the match on read_single's result in the loop of read
read_decision(res) ==
  IF res.tag = "Ok" THEN "return" ELSE IF res = CNA THEN "continue" ELSE "abort"

\* x11.rs:316-328: read_single of format ri ended with res
EndAttempt(res) ==
  /\ rlog' = Append(rlog, [format |-> rformats[ri], res |-> res])
  /\ IF read_decision(res) = "continue" /\ ri < Len(rformats)
       THEN /\ ri' = ri + 1
            /\ rpc' = "start"
            /\ UNCHANGED rres
       ELSE /\ rpc' = "off"
            /\ rres' = IF read_decision(res) = "continue" THEN CNA ELSE res
            /\ UNCHANGED ri

\* the time steps of the clock
Steps == {1, SHORT_TIMEOUT_DUR, LONG_TIMEOUT_DUR}

ReadTargets == {"UTF8_STRING", "STRING", "TEXT"}

\* the format lists of the reads: up to MaxFormats different formats
RFormatLists ==
  UNION { { l \in [1..n -> ReadTargets] : \A i, j \in 1..n : l[i] = l[j] => i = j } :
          n \in 1..MaxFormats }

\* x11.rs:298, 314: read when this process is not the owner; a reader context is made
RBegin(formats) ==
  /\ rpc = "off" /\ pc["t1"] = "idle" /\ has_handle
  /\ owner["Clipboard"] # Me
  /\ UNCHANGED nwrites
  /\ rformats' = formats
  /\ ri' = 1
  /\ rlog' = <<>>
  /\ prop' = None /\ revq' = <<>> /\ oreq' = <<>> /\ ochunks' = None /\ osent' = <<>>
  /\ \E r \in {"ok", "err"} :
       IF r = "ok" THEN rpc' = "start" /\ rres' = NoRes
                   ELSE rpc' = "off" /\ rres' = Err("Unknown")
  /\ ret' = NoRet
  /\ UNCHANGED <<data, dlock, mutex, stamp, waiting, owner, evq, srv, sent,
                 serve_stopped, pc, arg, lastw, using_incr, incr_data, now,
                 timeout_end, nticks, lvars, fvars>>

\* x11.rs:339-362 read_single: delete_property, convert_selection, sync, and the
\* locals; with no owner the X server answers itself with property NONE
RStart ==
  /\ rpc = "start"
  /\ \E r \in {"ok", "err"} :
       IF r = "ok"
         THEN /\ prop' = None
              /\ LET q == IF prop # None THEN Append(revq, PropertyNotify("DELETED"))
                                         ELSE revq
                 IN  IF owner["Clipboard"] = Other
                       THEN revq' = q /\ oreq' = Append(oreq, rformats[ri])
                       ELSE /\ revq' = Append(q, REvent("SelectionNotify", "CLIPBOARD",
                                                        rformats[ri], NONE, "-"))
                            /\ UNCHANGED oreq
              /\ using_incr' = FALSE
              /\ incr_data' = <<>>
              /\ now' = 0
              /\ timeout_end' = LONG_TIMEOUT_DUR
              /\ nticks' = 0
              /\ rpc' = "poll"
              /\ UNCHANGED <<ri, rlog, rres>>
         ELSE /\ EndAttempt(Err("Unknown"))
              /\ UNCHANGED <<prop, revq, oreq, using_incr, incr_data, now, timeout_end,
                             nticks>>
  /\ ret' = NoRet
  /\ UNCHANGED <<svars, lvars, fvars, rformats, ochunks, osent>>

\* x11.rs:364-413 one turn of the while loop with an event, handled by
\* handle_read_selection_notify (485-551) or handle_read_property_notify (554-590)
RPoll ==
  /\ rpc = "poll" /\ now < timeout_end /\ revq # <<>>
  /\ LET e == Head(revq)
         q == Tail(revq)
         target == rformats[ri]
         \* the property of the window the event names: the code reads it from
         \* event.requestor / event.window; another window has no such property
         r1 == GetProperty(IF e.window = "READER" THEN prop ELSE None, target)
     IN  IF e.type = "SelectionNotify"
           THEN IF e.property = NONE \/ e.target # target
                  THEN /\ EndAttempt(CNA)
                       /\ revq' = q
                       /\ UNCHANGED <<prop, using_incr, incr_data, timeout_end>>
                ELSE IF kind_of(e.selection) = None \/ using_incr
                  THEN /\ revq' = q
                       /\ UNCHANGED <<prop, using_incr, incr_data, timeout_end, ri, rpc,
                                      rlog, rres>>
                ELSE IF r1.type = target
                  THEN /\ EndAttempt(Ok(ClipboardData(r1.value, target)))
                       /\ prop' = None
                       /\ revq' = Deleted(q, r1)
                       /\ UNCHANGED <<using_incr, incr_data, timeout_end>>
                ELSE IF r1.type = "INCR"
                  THEN /\ prop' = None
                       /\ revq' = Deleted(q, GetProperty(prop, "INCR"))
                       /\ using_incr' = TRUE
                       /\ timeout_end' = timeout_end + SHORT_TIMEOUT_DUR
                       /\ UNCHANGED <<incr_data, ri, rpc, rlog, rres>>
                ELSE /\ EndAttempt(Err("Unknown"))
                     /\ revq' = q
                     /\ UNCHANGED <<prop, using_incr, incr_data, timeout_end>>
           ELSE IF \/ e.property # "ARBOARD_CLIPBOARD" \/ e.state # "NEW_VALUE"
                   \/ ~using_incr
                  THEN /\ revq' = q
                       /\ UNCHANGED <<prop, using_incr, incr_data, timeout_end, ri, rpc,
                                      rlog, rres>>
                ELSE /\ revq' = Deleted(q, r1)
                     /\ prop' = IF r1.deleted THEN None ELSE prop
                     /\ IF Len(r1.value) = 0
                          THEN /\ EndAttempt(Ok(ClipboardData(incr_data, target)))
                               /\ UNCHANGED <<incr_data, timeout_end>>
                          ELSE /\ incr_data' = incr_data \o r1.value
                               /\ timeout_end' = now + SHORT_TIMEOUT_DUR
                               /\ UNCHANGED <<ri, rpc, rlog, rres>>
                     /\ UNCHANGED using_incr
  /\ ret' = NoRet
  /\ UNCHANGED <<svars, lvars, fvars, rformats, now, oreq, ochunks, osent, nticks>>

\* x11.rs:364-371: time passes (the 1 ms sleeps, or the work between two polls)
RTick(d) ==
  /\ rpc = "poll" /\ now < timeout_end /\ nticks < MaxTicks
  /\ now' = now + d
  /\ nticks' = nticks + 1
  /\ ret' = NoRet
  /\ UNCHANGED <<svars, lvars, fvars, rformats, ri, rpc, prop, revq, using_incr, incr_data,
                 timeout_end, oreq, ochunks, osent, rlog, rres>>

\* a time-out reported as an error
time_out_hit_error == Err("Unknown")

\* x11.rs:414-415 the result of read_single after the while loop
time_out_hit == CNA

\* x11.rs:364, 414-415: the while condition fails, ContentNotAvailable
RTimeout ==
  /\ rpc = "poll" /\ now >= timeout_end
  /\ EndAttempt(time_out_hit)
  /\ ret' = NoRet
  /\ UNCHANGED <<svars, lvars, fvars, rformats, prop, revq, using_incr, incr_data, now,
                 timeout_end, oreq, ochunks, osent, nticks>>

\* events another client sends to the reader's window with SendEvent: an answer that
\* names another requestor, with and without a property, and property changes of
\* another window and of another property
StrayEvents ==
  { WinEvent("SelectionNotify", "OTHER_WIN", "CLIPBOARD", "UTF8_STRING", pr, "-") :
      pr \in {NONE, "ARBOARD_CLIPBOARD"} }
  \cup { WinEvent("PropertyNotify", "OTHER_WIN", "-", "-", "ARBOARD_CLIPBOARD", "NEW_VALUE"),
         WinEvent("PropertyNotify", "READER", "-", "-", "OTHER_PROP", "NEW_VALUE") }

\* another client sends the event e to the reader's window while a read runs
StraySends(e) ==
  /\ rpc = "poll" /\ Len(revq) < MaxREvents
  /\ revq' = Append(revq, e)
  /\ ret' = NoRet
  /\ UNCHANGED <<svars, lvars, fvars, rformats, ri, rpc, prop, using_incr, incr_data,
                 now, timeout_end, oreq, ochunks, osent, rlog, rres, nticks>>

\* the i-th chunk of a transfer of n chunks of type ty, the last one empty
Chunk(i, n, ty) == [type |-> ty, value |-> IF i = n THEN <<>> ELSE <<i>>]

Chunks(n, ty) == [i \in 1..n |-> Chunk(i, n, ty)]

OwnerPlans == {"refuse", "wrong_target", "foreign", "data", "bad_type", "incr"}

\* the owner of the selection answers the oldest convert request; it serves one
\* transfer at a time. Whatever it writes to the property is reported to the reader's
\* window before its SelectionNotify.
OwnerAnswer(plan, n, ty) ==
  /\ oreq # <<>> /\ ochunks = None /\ Len(revq) + 2 <= MaxREvents
  /\ LET t == Head(oreq)
         notify(sel, tg, p) == REvent("SelectionNotify", sel, tg, p, "-")
         reported(q) == Append(q, PropertyNotify("NEW_VALUE"))
     IN  CASE plan = "refuse" ->
                /\ revq' = Append(revq, notify("CLIPBOARD", t, NONE))
                /\ UNCHANGED <<prop, ochunks, osent>>
           [] plan = "wrong_target" ->
                /\ revq' = Append(revq, notify("CLIPBOARD", "OTHER_TARGET", "ARBOARD_CLIPBOARD"))
                /\ UNCHANGED <<prop, ochunks, osent>>
           [] plan = "foreign" ->
                /\ revq' = Append(revq, notify(OTHER_SEL, t, "ARBOARD_CLIPBOARD"))
                /\ UNCHANGED <<prop, ochunks, osent>>
           [] plan = "data" ->
                /\ prop' = Some([type |-> t, value |-> TextA])
                /\ revq' = Append(reported(revq), notify("CLIPBOARD", t, "ARBOARD_CLIPBOARD"))
                /\ UNCHANGED <<ochunks, osent>>
           [] plan = "bad_type" ->
                /\ prop' = Some([type |-> "OTHER_TYPE", value |-> TextA])
                /\ revq' = Append(reported(revq), notify("CLIPBOARD", t, "ARBOARD_CLIPBOARD"))
                /\ UNCHANGED <<ochunks, osent>>
           [] plan = "incr" ->
                /\ prop' = Some([type |-> "INCR", value |-> <<>>])
                /\ revq' = Append(reported(revq), notify("CLIPBOARD", t, "ARBOARD_CLIPBOARD"))
                /\ ochunks' = Some(Chunks(n, IF ty = "target" THEN t ELSE ty))
                /\ osent' = <<>>
  /\ oreq' = Tail(oreq)
  /\ ret' = NoRet
  /\ UNCHANGED <<svars, lvars, fvars, rformats, ri, rpc, using_incr, incr_data, now,
                 timeout_end, rlog, rres, nticks>>

\* the owner drops a convert request without answering it
OwnerIgnore ==
  /\ oreq # <<>> /\ ochunks = None
  /\ oreq' = Tail(oreq)
  /\ ret' = NoRet
  /\ UNCHANGED <<svars, lvars, fvars, rformats, ri, rpc, prop, revq, using_incr, incr_data,
                 now, timeout_end, ochunks, osent, rlog, rres, nticks>>

\* ICCCM INCR: the owner writes the next chunk once the requestor deleted the property
OwnerChunk ==
  /\ IsSome(ochunks) /\ Unwrap(ochunks) # <<>> /\ prop = None
  /\ Len(revq) < MaxREvents
  /\ prop' = Some(Head(Unwrap(ochunks)))
  /\ revq' = Append(revq, PropertyNotify("NEW_VALUE"))
  /\ ochunks' = Some(Tail(Unwrap(ochunks)))
  /\ osent' = Append(osent, Head(Unwrap(ochunks)))
  /\ ret' = NoRet
  /\ UNCHANGED <<svars, lvars, fvars, rformats, ri, rpc, using_incr, incr_data, now,
                 timeout_end, oreq, rlog, rres, nticks>>

\* the owner ends its transfer: all chunks taken, or it gives the requestor up
OwnerEnd ==
  /\ IsSome(ochunks)
  /\ ochunks' = None
  /\ ret' = NoRet
  /\ UNCHANGED <<svars, lvars, fvars, rformats, ri, rpc, prop, revq, using_incr, incr_data,
                 now, timeout_end, oreq, osent, rlog, rres, nticks>>

\* ------------------------------------------- SpecLife: handles and teardown
MaxHandles == 2
MaxInstances == 2

\* x11.rs:1072
MIN_OWNERS == 3

\* history of the teardown: pre, this process owned CLIPBOARD with marked data when
\* the last drop began; failed, a step of the handover failed; waited, the handover
\* wait was entered; served, while InProgress the loop answered a request for a
\* target other than TARGETS; signalled, while InProgress the loop received a
\* SelectionNotify of CLIPBOARD_MANAGER
NoTeardown == [pre |-> FALSE, failed |-> FALSE, waited |-> FALSE, served |-> FALSE,
               signalled |-> FALSE]

\* x11.rs:738 the stored set holds the sensitivity marker
is_excluded(store) == IsSome(store) /\ HasFormat(Unwrap(store), "X_KDE_PASSWORDMANAGERHINT")

\* a lock of the registry that never waits
lock_registry_any == TRUE

\* x11.rs:916, 1076 CLIPBOARD.lock() returns once the mutex is free
lock_registry == glock = "free"

\* x11.rs:1077 Arc::strong_count(&self.inner): the Clipboard values, the share of
\* the registry and the share of the server thread while it has not ended
strong_count ==
  handles + (IF registry THEN 1 ELSE 0) + (IF srv # "stopped" THEN 1 ELSE 0)

\* x11.rs:916-919 Clipboard::new while the registry holds a context: one more
\* Clipboard value on it
New(t) ==
  /\ pc[t] = "idle" /\ lock_registry
  /\ registry /\ handles < MaxHandles
  /\ handles' = handles + 1
  /\ ret' = NoRet
  /\ UNCHANGED <<svars, rvars, fvars, registry, handover_state, written, notified, window,
                 mgr, tdn, gvars>>

\* x11.rs:916-932 Clipboard::new while the registry is empty: a new context with
\* its connection and window, one server thread, the registry filled. The values
\* still on the previous context stay on it.
NewInner(t) ==
  /\ pc[t] = "idle" /\ lock_registry
  /\ ~registry /\ ninst < MaxInstances
  /\ \A u \in Threads : pc[u] \in {"idle", "d_release"}
  /\ data' = [k \in Kinds |-> None]
  /\ dlock' = [k \in Kinds |-> "free"]
  /\ mutex' = [k \in Kinds |-> "free"]
  /\ stamp' = [k \in Kinds |-> None]
  /\ waiting' = [k \in Kinds |-> {}]
  /\ owner' = [k \in Kinds |-> IF owner[k] = Me THEN Other ELSE owner[k]]
  /\ evq' = <<>> /\ srv' = "wait" /\ sent' = <<>> /\ serve_stopped' = FALSE
  /\ lastw' = [k \in Kinds |-> None]
  /\ pc' = [u \in Threads |-> IF pc[u] = "d_release" THEN "d_release_old" ELSE pc[u]]
  /\ handles' = 1 /\ orphans' = orphans + handles
  /\ registry' = TRUE /\ ninst' = ninst + 1 /\ spawned' = 1
  /\ handover_state' = "Idle" /\ written' = FALSE /\ notified' = FALSE
  /\ window' = TRUE /\ mgr' = 0 /\ tdn' = NoTeardown
  /\ ret' = NoRet
  /\ UNCHANGED <<arg, nwrites, rvars, fvars, glock>>

\* x11.rs:1076-1077 Drop: lock the registry and compare the share count; only a
\* count of MIN_OWNERS starts the teardown, which keeps the registry locked
DropBegin(t) ==
  /\ pc[t] = "idle" /\ can_drop /\ lock_registry
  /\ IF strong_count = MIN_OWNERS
       THEN /\ pc' = [pc EXCEPT ![t] = "d_is_owner"]
            /\ glock' = t
            /\ tdn' = [NoTeardown EXCEPT
                         !.pre = owner["Clipboard"] = Me /\ is_excluded(data["Clipboard"])]
       ELSE /\ pc' = [pc EXCEPT ![t] = "d_release"]
            /\ UNCHANGED <<glock, tdn>>
  /\ ret' = NoRet
  /\ UNCHANGED <<data, dlock, mutex, stamp, waiting, owner, evq, srv, sent,
                 serve_stopped, arg, lastw, nwrites, rvars, fvars, handles, registry,
                 handover_state, written, notified, window, mgr, ninst, orphans,
                 spawned>>

\* x11.rs:1162: after drop() returned and unlocked the registry, the Clipboard
\* value's share of the context is dropped
DropRelease(t) ==
  /\ pc[t] = "d_release"
  /\ handles' = handles - 1
  /\ pc' = [pc EXCEPT ![t] = "idle"]
  /\ ret' = NoRet
  /\ UNCHANGED <<data, dlock, mutex, stamp, waiting, owner, evq, srv, sent,
                 serve_stopped, arg, lastw, nwrites, rvars, fvars, registry, handover_state,
                 written, notified, window, mgr, tdn, gvars>>

\* x11.rs:1162: the same when the value's context has been replaced meanwhile
DropReleaseOld(t) ==
  /\ pc[t] = "d_release_old"
  /\ orphans' = orphans - 1
  /\ pc' = [pc EXCEPT ![t] = "idle"]
  /\ ret' = NoRet
  /\ UNCHANGED <<data, dlock, mutex, stamp, waiting, owner, evq, srv, sent,
                 serve_stopped, arg, lastw, nwrites, rvars, fvars, handles, registry,
                 handover_state, written, notified, window, mgr, tdn, glock, ninst,
                 spawned>>

\* x11.rs:1076-1077, 1162 Drop of a Clipboard value on a replaced context: that
\* context has no registry share, its count is below MIN_OWNERS
DropOrphan(t) ==
  /\ pc[t] = "idle" /\ lock_registry
  /\ orphans - Cardinality({u \in Threads : pc[u] = "d_release_old"}) >= 1
  /\ orphans' = orphans - 1
  /\ ret' = NoRet
  /\ UNCHANGED <<svars, rvars, fvars, handles, registry, handover_state, written, notified,
                 window, mgr, tdn, glock, ninst, spawned>>

\* a handover of the PRIMARY selection
handover_selection_primary == "Primary"

\* x11.rs:718-721 the selection whose data is handed to the manager
handover_selection == "Clipboard"

\* x11.rs:712-726 ask_clipboard_manager_to_request_our_data: is_owner(Clipboard)
DropIsOwner(t) ==
  /\ pc[t] = "d_is_owner"
  /\ \E r \in {"ok", "err"} :
       IF r = "ok"
         THEN /\ pc' = [pc EXCEPT ![t] = IF owner[handover_selection] = Me THEN "d_read_data"
                                                                  ELSE "d_destroy"]
              /\ UNCHANGED tdn
         ELSE /\ pc' = [pc EXCEPT ![t] = "d_destroy"]
              /\ tdn' = [tdn EXCEPT !.failed = TRUE]
  /\ ret' = NoRet
  /\ UNCHANGED <<data, dlock, mutex, stamp, waiting, owner, evq, srv, sent,
                 serve_stopped, arg, lastw, nwrites, rvars, fvars, handles, registry,
                 handover_state, written, notified, window, mgr, gvars>>

\* x11.rs:728-760: read the store; the read guard lives until the match ends
DropReadData(t) ==
  /\ pc[t] = "d_read_data"
  /\ dlock[handover_selection] = "free"
  /\ IF data[handover_selection] = None
       THEN pc' = [pc EXCEPT ![t] = "d_destroy"] /\ UNCHANGED dlock
       ELSE IF is_excluded(data[handover_selection])
         THEN /\ pc' = [pc EXCEPT ![t] = "d_clear"]
              /\ dlock' = [dlock EXCEPT ![handover_selection] = t]
         ELSE pc' = [pc EXCEPT ![t] = "d_convert"] /\ UNCHANGED dlock
  /\ ret' = NoRet
  /\ UNCHANGED <<data, mutex, stamp, waiting, owner, evq, srv, sent, serve_stopped,
                 arg, lastw, nwrites, rvars, fvars, lvars>>

\* x11.rs:748-753 with 229-238: clear(Clipboard), a failure is only logged
DropClear(t) ==
  /\ pc[t] = "d_clear"
  /\ \E r \in {"ok", "err"} :
       IF r = "ok"
         THEN /\ owner' = [owner EXCEPT ![handover_selection] = NoOwner]
              /\ evq' = IF owner[handover_selection] = Me
                          THEN Append(evq, Event("SelectionClear", atom_of(handover_selection), "-"))
                          ELSE evq
              /\ lastw' = Mark(handover_selection, "clear")
              /\ UNCHANGED tdn
         ELSE /\ tdn' = [tdn EXCEPT !.failed = TRUE]
              /\ UNCHANGED <<owner, evq, lastw>>
  /\ dlock' = [dlock EXCEPT ![handover_selection] = "free"]
  /\ pc' = [pc EXCEPT ![t] = "d_destroy"]
  /\ ret' = NoRet
  /\ UNCHANGED <<data, mutex, stamp, waiting, srv, sent, serve_stopped, arg, nwrites,
                 rvars, fvars, handles, registry, handover_state, written, notified, window,
                 mgr, gvars>>

\* x11.rs:765-785: lock handover_state, convert_selection(CLIPBOARD_MANAGER,
\* SAVE_TARGETS), flush, InProgress, and wait_for on handover_cv
DropConvert(t) ==
  /\ pc[t] = "d_convert"
  /\ \E r \in {"ok", "convert_err", "flush_err"} :
       /\ mgr' = IF r = "convert_err" THEN mgr ELSE mgr + 1
       /\ IF r = "ok"
            THEN /\ handover_state' = "InProgress"
                 /\ pc' = [pc EXCEPT ![t] = "d_wait"]
                 /\ tdn' = [tdn EXCEPT !.waited = TRUE]
            ELSE /\ pc' = [pc EXCEPT ![t] = "d_destroy"]
                 /\ tdn' = [tdn EXCEPT !.failed = TRUE]
                 /\ UNCHANGED handover_state
  /\ ret' = NoRet
  /\ UNCHANGED <<data, dlock, mutex, stamp, waiting, owner, evq, srv, sent,
                 serve_stopped, arg, lastw, nwrites, rvars, fvars, handles, registry, written,
                 notified, window, gvars>>

\* a wait on handover_cv that only a notification ends
wait_returns_notified(p) == p = "d_woken"

\* x11.rs:781-785 Condvar::wait_for(.., 100 ms) returns when it was notified or
\* when the duration has passed
wait_for_returns(p) == p \in {"d_wait", "d_woken"}

\* x11.rs:785-793: the wait ends, woken by handover_finished or after 100 ms
DropWaitEnd(t) ==
  /\ wait_for_returns(pc[t])
  /\ pc' = [pc EXCEPT ![t] = "d_destroy"]
  /\ ret' = NoRet
  /\ UNCHANGED <<data, dlock, mutex, stamp, waiting, owner, evq, srv, sent,
                 serve_stopped, arg, lastw, nwrites, rvars, fvars, lvars>>

\* x11.rs:1085-1093: take the global context, destroy_window and flush; a failure
\* returns before the join. The X server reverts the selections the window owned
\* and reports the destruction to the window.
DropDestroy(t) ==
  /\ pc[t] = "d_destroy"
  /\ registry' = FALSE
  /\ \E r \in {"ok", "err"} :
       IF r = "ok"
         THEN /\ window' = FALSE
              /\ owner' = [k \in Kinds |-> IF owner[k] = Me THEN NoOwner ELSE owner[k]]
              /\ evq' = destroy_notify(evq, window)
              /\ pc' = [pc EXCEPT ![t] = "d_join"]
              /\ UNCHANGED glock
         ELSE /\ pc' = [pc EXCEPT ![t] = "d_release"]
              /\ glock' = "free"
              /\ UNCHANGED <<window, owner, evq>>
  /\ ret' = NoRet
  /\ UNCHANGED <<data, dlock, mutex, stamp, waiting, srv, sent, serve_stopped, arg,
                 lastw, nwrites, rvars, fvars, handles, handover_state, written, notified,
                 mgr, tdn, ninst, orphans, spawned>>

\* x11.rs:1094-1116: drop the global's share and join the server thread; drop()
\* returns and unlocks the registry
DropJoin(t) ==
  /\ pc[t] = "d_join"
  /\ srv = "stopped"
  /\ pc' = [pc EXCEPT ![t] = "d_release"]
  /\ glock' = "free"
  /\ ret' = NoRet
  /\ UNCHANGED <<data, dlock, mutex, stamp, waiting, owner, evq, srv, sent,
                 serve_stopped, arg, lastw, nwrites, rvars, fvars, handles, registry,
                 handover_state, written, notified, window, mgr, tdn, ninst, orphans,
                 spawned>>

\* the clipboard manager (or any client) sends a SelectionNotify to the window
ManagerNotifies(sel) ==
  /\ window /\ Len(evq) < MaxQueue
  /\ evq' = Append(evq, Event("SelectionNotify", sel, "SAVE_TARGETS"))
  /\ ret' = NoRet
  /\ UNCHANGED <<data, dlock, mutex, stamp, waiting, owner, srv, sent, serve_stopped,
                 pc, arg, lastw, nwrites, xvars>>

\* the state after the first Clipboard::new: one handle, the context registered
LInit ==
  /\ handles = 1 /\ registry = TRUE /\ handover_state = "Idle"
  /\ written = FALSE /\ notified = FALSE /\ window = TRUE /\ mgr = 0
  /\ tdn = NoTeardown
  /\ glock = "free" /\ ninst = 1 /\ orphans = 0 /\ spawned = 1

\* ------------------------------------------------------------------- Spec
\* the state after Inner::new: empty stores, nothing owned, the loop waiting
MInit ==
  /\ data = [k \in Kinds |-> None]
  /\ dlock = [k \in Kinds |-> "free"]
  /\ mutex = [k \in Kinds |-> "free"]
  /\ stamp = [k \in Kinds |-> None]
  /\ waiting = [k \in Kinds |-> {}]
  /\ owner = [k \in Kinds |-> NoOwner]
  /\ evq = <<>>
  /\ srv = "wait"
  /\ sent = <<>>
  /\ serve_stopped = FALSE
  /\ pc = [t \in Threads |-> "idle"]
  /\ arg = [t \in Threads |-> NoArg]
  /\ ret = NoRet
  /\ lastw = [k \in Kinds |-> None]
  /\ nwrites = 0

\* no URI list
UIdle == ulines = <<>> /\ paths = None

Init == MInit /\ RIdle /\ LInit /\ UIdle

\* two caller threads writing texts to two kinds without waiting or waiting
\* forever, the second one also reading and clearing (a clear that fails changes
\* no state and is drawn in SpecData), other clients taking the selections, and
\* the server loop
Next ==
  \/ \E t \in Threads : WriteBegin(t, TextCalls, TwoKinds, Sets({"None", "Forever"}))
  \/ \E t \in Threads : WriteAssert(t)
  \/ \E t \in Threads : WriteNotify(t)
  \/ \E t \in Threads : WriteDropGuard(t)
  \/ \E t \in Threads : WriteWait(t)
  \/ \E t \in Threads : WriteReturn(t)
  \/ ReadBegin("t2", TwoKinds, {<<"UTF8_STRING">>})
  \/ \E t \in Threads : ReadLocal(t)
  \/ \E k \in TwoKinds : Clear("t2", k, {"ok"})
  \/ \E k \in TwoKinds : OtherTakes(k)
  \/ ServeClearStore
  \/ ServeClearNotify
  \/ ServeConnError

Spec == Init /\ [][Next]_vars

\* --------------------------------------------------------------- SpecData
\* one caller writing every payload shape with every wait configuration, reading
\* with every format list and clearing with every outcome of its requests, other
\* clients taking the selection and requesting every target of it and of a
\* foreign selection, and the server loop
NextData ==
  \/ WriteBegin("t1", WriteCalls, {"Clipboard"}, Sets(WaitConfigs))
  \/ WriteAssert("t1")
  \/ WriteNotify("t1")
  \/ WriteDropGuard("t1")
  \/ WriteWait("t1")
  \/ WriteTimeout("t1")
  \/ WriteReturn("t1")
  \/ ReadBegin("t1", {"Clipboard"}, ReadFormats)
  \/ ReadLocal("t1")
  \/ Clear("t1", "Clipboard", ClearResults)
  \/ OtherTakes("Clipboard")
  \/ \E sel \in {"CLIPBOARD", OTHER_SEL}, tg \in RequestTargets : OtherRequests(sel, tg)
  \/ ServeClearStore
  \/ ServeClearNotify
  \/ ServeRequest

SpecData == Init /\ [][NextData]_vars

\* --------------------------------------------------------------- SpecLife
LifeCalls == { [data |-> set_text(TextA, e), excl |-> e] : e \in BOOLEAN }

LifeThreads == {"t1", "t2"}

\* two threads sharing up to MaxHandles Clipboard values on up to MaxInstances
\* contexts: they acquire and drop values, the first one writes plain and sensitive
\* text to CLIPBOARD with every wait policy; other clients take the selection or
\* destroy the window; the server loop, which may also end on a connection failure
NextLife ==
  \/ WriteBegin("t1", LifeCalls, {"Clipboard"}, Sets(WaitConfigs))
  \/ WriteAssert("t1")
  \/ WriteNotify("t1")
  \/ WriteDropGuard("t1")
  \/ WriteWait("t1")
  \/ WriteTimeout("t1")
  \/ WriteReturn("t1")
  \/ \E t \in LifeThreads : New(t)
  \/ \E t \in LifeThreads : NewInner(t)
  \/ \E t \in LifeThreads : DropBegin(t)
  \/ \E t \in LifeThreads : DropIsOwner(t)
  \/ \E t \in LifeThreads : DropReadData(t)
  \/ \E t \in LifeThreads : DropClear(t)
  \/ \E t \in LifeThreads : DropConvert(t)
  \/ \E t \in LifeThreads : DropWaitEnd(t)
  \/ \E t \in LifeThreads : DropDestroy(t)
  \/ \E t \in LifeThreads : DropJoin(t)
  \/ \E t \in LifeThreads : DropRelease(t)
  \/ \E t \in LifeThreads : DropReleaseOld(t)
  \/ \E t \in LifeThreads : DropOrphan(t)
  \/ OtherTakes("Clipboard")
  \/ OtherDestroys
  \/ ServeClearStore
  \/ ServeClearNotify
  \/ ServeDestroy
  \/ ServeConnError
  \/ ServeExit

SpecLife == Init /\ [][NextLife]_vars

\* ----------------------------------------------------------- SpecHandover
\* one thread with the only Clipboard value: it writes plain and sensitive text to
\* CLIPBOARD and drops the value; other clients take the selection and send
\* requests, the manager sends its SelectionNotify or stays silent; the server
\* loop. The timer of wait_for runs: a wait that can return does return.
NextHandover ==
  \/ WriteBegin("t1", LifeCalls, {"Clipboard"}, Sets({"None"}))
  \/ WriteAssert("t1")
  \/ WriteNotify("t1")
  \/ DropBegin("t1")
  \/ DropIsOwner("t1")
  \/ DropReadData("t1")
  \/ DropClear("t1")
  \/ DropConvert("t1")
  \/ DropWaitEnd("t1")
  \/ DropDestroy("t1")
  \/ DropJoin("t1")
  \/ DropRelease("t1")
  \/ OtherTakes("Clipboard")
  \/ \E tg \in {"TARGETS", "UTF8_STRING"} : OtherRequests("CLIPBOARD", tg)
  \/ OtherRequests(OTHER_SEL, "UTF8_STRING")
  \/ \E sel \in {"CLIPBOARD_MANAGER", "CLIPBOARD"} : ManagerNotifies(sel)
  \/ ServeClearStore
  \/ ServeClearNotify
  \/ ServeRequest
  \/ ServeNotify
  \/ ServeDestroy
  \/ ServeExit

SpecHandover == Init /\ [][NextHandover]_vars /\ WF_vars(DropWaitEnd("t1"))

\* ----------------------------------------------------------- SpecTeardown
\* two threads sharing up to MaxHandles Clipboard values on one context: they
\* acquire and drop values, the first one writes plain and sensitive text to
\* CLIPBOARD and PRIMARY without waiting; other clients take either
\* selection, the manager answers the handover; the server loop, which may also end
\* on a connection failure
NextTeardown ==
  \/ WriteBegin("t1", LifeCalls, TwoKinds, Sets({"None"}))
  \/ WriteAssert("t1")
  \/ WriteNotify("t1")
  \/ \E t \in LifeThreads : New(t)
  \/ \E t \in LifeThreads : DropBegin(t)
  \/ \E t \in LifeThreads : DropIsOwner(t)
  \/ \E t \in LifeThreads : DropReadData(t)
  \/ \E t \in LifeThreads : DropClear(t)
  \/ \E t \in LifeThreads : DropConvert(t)
  \/ \E t \in LifeThreads : DropWaitEnd(t)
  \/ \E t \in LifeThreads : DropDestroy(t)
  \/ \E t \in LifeThreads : DropJoin(t)
  \/ \E t \in LifeThreads : DropRelease(t)
  \/ \E k \in TwoKinds : OtherTakes(k)
  \/ ManagerNotifies("CLIPBOARD_MANAGER")
  \/ ServeClearStore
  \/ ServeClearNotify
  \/ ServeNotify
  \/ ServeDestroy
  \/ ServeConnError
  \/ ServeExit

SpecTeardown == Init /\ [][NextTeardown]_vars

\* -------------------------------------------------------------- SpecKinds
\* two caller threads writing texts to CLIPBOARD and PRIMARY without waiting or waiting
\* forever, other clients taking either selection or sending a SelectionClear that
\* names a selection of none of the kinds, and the server loop
NextKinds ==
  \/ \E t \in Threads : WriteBegin(t, TextCalls, TwoKinds, Sets({"None", "Forever"}))
  \/ \E t \in Threads : WriteAssert(t)
  \/ \E t \in Threads : WriteNotify(t)
  \/ \E t \in Threads : WriteDropGuard(t)
  \/ \E t \in Threads : WriteWait(t)
  \/ \E t \in Threads : WriteReturn(t)
  \/ \E k \in TwoKinds : OtherTakes(k)
  \/ OtherSends("SelectionClear", OTHER_SEL)
  \/ ServeClearStore
  \/ ServeClearNotify

SpecKinds == Init /\ [][NextKinds]_vars

\* ------------------------------------------------------------ SpecTargets
\* the targets a TARGETS answer can list for the payload lists the facade builds
ListedTargets ==
  {"TARGETS", "SAVE_TARGETS", "UTF8_STRING", "UTF8_MIME_0", "UTF8_MIME_1", "HTML",
   "X_KDE_PASSWORDMANAGERHINT"}

\* one caller writing every payload shape to CLIPBOARD without waiting, other clients
\* taking the selection and requesting every target a TARGETS answer can list, and
\* the server loop
NextTargets ==
  \/ WriteBegin("t1", WriteCalls, {"Clipboard"}, Sets({"None"}))
  \/ WriteAssert("t1")
  \/ WriteNotify("t1")
  \/ OtherTakes("Clipboard")
  \/ \E tg \in ListedTargets : OtherRequests("CLIPBOARD", tg)
  \/ ServeClearStore
  \/ ServeClearNotify
  \/ ServeRequest

SpecTargets == Init /\ [][NextTargets]_vars

\* --------------------------------------------------------------- SpecLock
\* two threads sharing up to MaxHandles Clipboard values on one context: the first
\* writes plain and sensitive text to CLIPBOARD with every wait policy, the second
\* reads and clears, both acquire and drop values; other clients take and request
\* the selection and destroy the window; the server loop
NextLock ==
  \/ WriteBegin("t1", LifeCalls, {"Clipboard"}, Sets(WaitConfigs))
  \/ WriteAssert("t1")
  \/ WriteNotify("t1")
  \/ WriteDropGuard("t1")
  \/ WriteWait("t1")
  \/ WriteTimeout("t1")
  \/ WriteReturn("t1")
  \/ ReadBegin("t2", {"Clipboard"}, {<<"UTF8_STRING">>})
  \/ ReadLocal("t2")
  \/ Clear("t2", "Clipboard", {"ok"})
  \/ \E t \in LifeThreads : New(t)
  \/ \E t \in LifeThreads : DropBegin(t)
  \/ \E t \in LifeThreads : DropIsOwner(t)
  \/ \E t \in LifeThreads : DropReadData(t)
  \/ \E t \in LifeThreads : DropClear(t)
  \/ \E t \in LifeThreads : DropConvert(t)
  \/ \E t \in LifeThreads : DropWaitEnd(t)
  \/ \E t \in LifeThreads : DropDestroy(t)
  \/ \E t \in LifeThreads : DropJoin(t)
  \/ \E t \in LifeThreads : DropRelease(t)
  \/ OtherTakes("Clipboard")
  \/ OtherRequests("CLIPBOARD", "UTF8_STRING")
  \/ OtherDestroys
  \/ ServeClearStore
  \/ ServeClearNotify
  \/ ServeRequest
  \/ ServeDestroy
  \/ ServeConnError
  \/ ServeExit

SpecLock == Init /\ [][NextLock]_vars

\* -------------------------------------------------------------- SpecCount
\* x11.rs:149-154, 820: an event reaches the queue of the server window. Its
\* requestor tells when it arrived: the client window EARLY sends before the
\* teardown has sent the save request, the client window REQ after it.
Arrives(type, sel, target) ==
  /\ window /\ Len(evq) < MaxQueue
  /\ type = "SelectionRequest" => owner["Clipboard"] = Me
  /\ evq' = Append(evq, [Event(type, sel, target) EXCEPT
                           !.requestor = IF mgr = 0 THEN "EARLY" ELSE "REQ"])
  /\ ret' = NoRet
  /\ UNCHANGED <<data, dlock, mutex, stamp, waiting, owner, srv, sent, serve_stopped,
                 pc, arg, lastw, nwrites, xvars>>

\* one thread with the only Clipboard value: it writes text to CLIPBOARD and
\* drops the value; clients request TARGETS and the text and send the
\* SelectionNotify of the manager selection, before and after the save request;
\* the server loop answers, and its answer may fail
NextCount ==
  \/ WriteBegin("t1", LifeCalls, {"Clipboard"}, Sets({"None"}))
  \/ WriteAssert("t1")
  \/ WriteNotify("t1")
  \/ DropBegin("t1")
  \/ DropIsOwner("t1")
  \/ DropReadData("t1")
  \/ DropClear("t1")
  \/ DropConvert("t1")
  \/ DropWaitEnd("t1")
  \/ DropDestroy("t1")
  \/ DropJoin("t1")
  \/ DropRelease("t1")
  \/ \E tg \in {"TARGETS", "UTF8_STRING"} : Arrives("SelectionRequest", "CLIPBOARD", tg)
  \/ Arrives("SelectionNotify", "CLIPBOARD_MANAGER", "SAVE_TARGETS")
  \/ ServeRequest
  \/ ServeRequestFails
  \/ ServeNotify
  \/ ServeDestroy
  \/ ServeExit

SpecCount == Init /\ [][NextCount]_vars

\* --------------------------------------------------------------- SpecRead
\* reads of CLIPBOARD with every format list while no one or another client owns
\* it; the owner answers, refuses, ignores, or transfers in INCR chunks of the
\* target's type or of the converted type STRING; the clock advances
NextRead ==
  \/ OtherTakes("Clipboard")
  \/ \E f \in RFormatLists : RBegin(f)
  \/ RStart
  \/ RPoll
  \/ \E d \in Steps : RTick(d)
  \/ RTimeout
  \/ \E plan \in OwnerPlans, n \in 1..(MaxChunks + 1), ty \in {"target", "STRING"} :
       OwnerAnswer(plan, n, ty)
  \/ OwnerIgnore
  \/ OwnerChunk
  \/ OwnerEnd

SpecRead == Init /\ [][NextRead]_vars

\* -------------------------------------------------------------- SpecStray
\* reads of CLIPBOARD that ask for UTF8_STRING first, an owner that answers with the
\* data, refuses or transfers in INCR chunks, and another client sending unsolicited
\* events to the reader's window
NextStray ==
  \/ OtherTakes("Clipboard")
  \/ \E f \in { l \in RFormatLists : l[1] = "UTF8_STRING" } : RBegin(f)
  \/ RStart
  \/ RPoll
  \/ \E d \in Steps : RTick(d)
  \/ RTimeout
  \/ \E plan \in {"refuse", "data", "incr"}, n \in 1..(MaxChunks + 1) :
       OwnerAnswer(plan, n, "target")
  \/ OwnerChunk
  \/ OwnerEnd
  \/ \E e \in StrayEvents : StraySends(e)

SpecStray == Init /\ [][NextStray]_vars

\* --------------------------------------------------------------- SpecWait
\* one caller writing a text to CLIPBOARD through a builder on which wait() and
\* wait_until() were called up to MaxCalls times in every order, another client
\* taking the selection, and the server loop; the deadline of a wait passes and the
\* woken thread runs
NextWait ==
  \/ WriteBegin("t1", TextCalls, {"Clipboard"}, AllSets)
  \/ WriteAssert("t1")
  \/ WriteNotify("t1")
  \/ WriteDropGuard("t1")
  \/ WriteWait("t1")
  \/ WriteTimeout("t1")
  \/ WriteReturn("t1")
  \/ OtherTakes("Clipboard")
  \/ ServeClearStore
  \/ ServeClearNotify

SpecWait ==
  Init /\ [][NextWait]_vars /\ WF_vars(WriteTimeout("t1")) /\ WF_vars(WriteReturn("t1"))

\* -------------------------------------------------------------- SpecServe
\* the events other clients send to the server window
SentEvents ==
  { <<"SelectionClear", OTHER_SEL>>, <<"SelectionNotify", "CLIPBOARD">>,
    <<"SelectionNotify", "CLIPBOARD_MANAGER">>, <<"PropertyNotify", "-">> }

\* the server loop under every kind of event: one caller writing texts, other
\* clients taking the selection, requesting it and a foreign one, sending stray
\* events and destroying the window; requests whose handling fails; the
\* connection failing
NextServe ==
  \/ WriteBegin("t1", TextCalls, {"Clipboard"}, Sets({"None"}))
  \/ WriteAssert("t1")
  \/ WriteNotify("t1")
  \/ OtherTakes("Clipboard")
  \/ \E sel \in {"CLIPBOARD", OTHER_SEL}, tg \in {"TARGETS", "UTF8_STRING"} :
       OtherRequests(sel, tg)
  \/ \E e \in SentEvents : OtherSends(e[1], e[2])
  \/ OtherDestroys
  \/ ServeClearStore
  \/ ServeClearNotify
  \/ ServeRequest
  \/ ServeRequestFails
  \/ ServeNotify
  \/ ServeOther
  \/ ServeDestroy
  \/ ServeConnError
  \/ ServeExit

SpecServe == Init /\ [][NextServe]_vars

\* ------------------------------------------- SpecUri: paths_from_uri_list
\* the byte of an ASCII character
ord(c) ==
  CASE c = " " -> 32
     [] c = "%" -> 37
     [] c = "/" -> 47
     [] c = "0" -> 48
     [] c = "2" -> 50
     [] c = "3" -> 51
     [] c = "5" -> 53
     [] c = "9" -> 57
     [] c = ":" -> 58
     [] c = "?" -> 63
     [] c = "A" -> 65
     [] c = "C" -> 67
     [] c = "F" -> 70
     [] c = "a" -> 97
     [] c = "b" -> 98
     [] c = "e" -> 101
     [] c = "f" -> 102
     [] c = "h" -> 104
     [] c = "i" -> 105
     [] c = "l" -> 108
     [] c = "p" -> 112
     [] c = "t" -> 116
     [] c = "\\" -> 92

\* the UTF-8 bytes of a text written as a sequence of ASCII characters
Bytes(t) == [i \in 1..Len(t) |-> ord(t[i])]

\* str::lines: the text is cut after every "\n"; the "\n" and a "\r" before it are
\* not part of the line; what follows the last "\n" is a line unless it is empty
RECURSIVE lines(_)
lines(s) ==
  IF s = <<>> THEN <<>>
  ELSE IF \E i \in 1..Len(s) : s[i] = 10
    THEN LET i == Min({ n \in 1..Len(s) : s[n] = 10 })
             l == SubSeq(s, 1, i - 1)
         IN  <<IF l # <<>> /\ l[Len(l)] = 13 THEN SubSeq(l, 1, Len(l) - 1) ELSE l>>
               \o lines(SubSeq(s, i + 1, Len(s)))
    ELSE <<s>>

\* a prefix test that cuts the first bytes of every line
strip_prefix_any(s, prefix) ==
  IF Len(s) >= Len(prefix) THEN Some(SubSeq(s, Len(prefix) + 1, Len(s))) ELSE None

\* str::strip_prefix
strip_prefix(s, prefix) ==
  IF Len(s) >= Len(prefix) /\ SubSeq(s, 1, Len(prefix)) = prefix
    THEN Some(SubSeq(s, Len(prefix) + 1, Len(s)))
    ELSE None

\* char::to_digit(16) of a byte, as Option
to_digit(b) ==
  IF b \in 48..57 THEN Some(b - 48)
  ELSE IF b \in 65..70 THEN Some(b - 55)
  ELSE IF b \in 97..102 THEN Some(b - 87)
  ELSE None

\* percent_encoding::percent_decode_str: "%" followed by two hexadecimal digits is
\* the byte they denote; every other byte, a "%" without two digits too, is itself
RECURSIVE percent_decode(_)
percent_decode(s) ==
  IF s = <<>> THEN <<>>
  ELSE IF /\ s[1] = 37 /\ Len(s) >= 3
          /\ IsSome(to_digit(s[2])) /\ IsSome(to_digit(s[3]))
    THEN <<Unwrap(to_digit(s[2])) * 16 + Unwrap(to_digit(s[3]))>>
           \o percent_decode(SubSeq(s, 4, Len(s)))
    ELSE <<s[1]>> \o percent_decode(Tail(s))

\* b is a UTF-8 continuation byte
cont(s, i) == i <= Len(s) /\ s[i] \in 128..191

\* core::str::from_utf8 accepts the bytes
RECURSIVE utf8(_)
utf8(s) ==
  IF s = <<>> THEN TRUE
  ELSE IF s[1] < 128 THEN utf8(Tail(s))
  ELSE IF s[1] \in 194..223
    THEN cont(s, 2) /\ utf8(SubSeq(s, 3, Len(s)))
  ELSE IF s[1] \in 224..239
    THEN /\ cont(s, 2) /\ cont(s, 3)
         /\ s[1] = 224 => s[2] >= 160
         /\ s[1] = 237 => s[2] <= 159
         /\ utf8(SubSeq(s, 4, Len(s)))
  ELSE IF s[1] \in 240..244
    THEN /\ cont(s, 2) /\ cont(s, 3) /\ cont(s, 4)
         /\ s[1] = 240 => s[2] >= 144
         /\ s[1] = 244 => s[2] <= 143
         /\ utf8(SubSeq(s, 5, Len(s)))
  ELSE FALSE

\* PercentDecode::decode_utf8(..).ok()
decode_utf8(s) == IF utf8(s) THEN Some(s) ELSE None

\* mod.rs:46-53 paths_from_uri_list
paths_from_uri_list(uri_list) ==
  LET ls == lines(uri_list)
      f[i \in 0..Len(ls)] ==
        IF i = 0 THEN <<>>
        ELSE LET stripped == strip_prefix(ls[i], Bytes(<<"f", "i", "l", "e", ":", "/", "/">>))
             IN  IF stripped = None THEN f[i - 1]
                 ELSE LET decoded == decode_utf8(percent_decode(Unwrap(stripped)))
                      IN  IF decoded = None THEN f[i - 1]
                          ELSE Append(f[i - 1], Unwrap(decoded))
  IN  f[Len(ls)]

\* the lines the URI lists are made of
UriLines ==
  { <<"f", "i", "l", "e", ":", "/", "/", "/", "a">>,
    <<"f", "i", "l", "e", ":", "/", "/", "/", "a", "%", "2", "0", "b">>,
    <<"f", "i", "l", "e", ":", "/", "/", "/", "a", "%", "3", "F">>,
    <<"f", "i", "l", "e", ":", "/", "/", "/", "a", "%", "3", "f">>,
    <<"f", "i", "l", "e", ":", "/", "/", "/", "a", "%", "5", "C">>,
    <<"f", "i", "l", "e", ":", "/", "/", "/", "%", "C", "3", "%", "A", "9">>,
    <<"f", "i", "l", "e", ":", "/", "/", "/", "%", "F", "F">>,
    <<"f", "i", "l", "e", ":", "/", "/", "/", "%", "2">>,
    <<"f", "i", "l", "e", ":", "/", "/", "/", "%", "2", "5", "2", "0">>,
    <<"f", "i", "l", "e", ":", "/", "/", "/", "a", "%", "0", "A", "b">>,
    <<"f", "i", "l", "e", ":", "/", "/">>,
    <<"h", "t", "t", "p", ":", "/", "/", "a">>,
    <<"F", "i", "l", "e", ":", "/", "/", "/", "a">>,
    <<>> }

\* the bytes that end a line: LF, CRLF, or nothing at the end of the list
end_bytes(e) == IF e = "LF" THEN <<10>> ELSE IF e = "CRLF" THEN <<13, 10>> ELSE <<>>

\* the URI list made of the lines ul
RECURSIVE uri_list_of(_)
uri_list_of(ul) ==
  IF ul = <<>> THEN <<>>
  ELSE Bytes(ul[1].text) \o end_bytes(ul[1].end) \o uri_list_of(Tail(ul))

\* the URI lists of up to MaxLines lines; only the last line may lack its ending
UriLists ==
  UNION { { ul \in [1..n -> [text : UriLines, end : {"LF", "CRLF", "EOF"}]] :
              \A i \in 1..(n - 1) : ul[i].end # "EOF" } : n \in 0..MaxLines }

\* a URI list is received
UInit == MInit /\ RIdle /\ LInit /\ ulines \in UriLists /\ paths = None

\* mod.rs:46-53: paths_from_uri_list is applied to the list
PathsFromUriList ==
  /\ paths = None
  /\ paths' = Some(paths_from_uri_list(uri_list_of(ulines)))
  /\ UNCHANGED <<mvars, rvars, lvars, ulines>>

NextUri == PathsFromUriList

SpecUri == UInit /\ [][NextUri]_vars

\* ================================================================ claims
MARK == "X_KDE_PASSWORDMANAGERHINT"

\* thread t completes the store read of a local read in this step
ReadLocalStep(t) == pc[t] = "r_local" /\ pc'[t] = "idle"

\* thread t's write returns from its wait in this step
WaitReturnStep(t) == pc[t] = "w_woken" /\ pc'[t] = "idle"

\* a notify_all on data_changed of kind k happens in this step
NotifyStep(k) ==
  \/ \E t \in Threads : pc[t] = "w_notify" /\ arg[t].k = k /\ pc'[t] # "w_notify"
  \/ srv = "clear_notify" /\ srv' = "wait" /\ kind_of(Head(evq).selection) = Some(k)

\* C1: round trip. A read of K with the format list [f], begun after a write of the
\* single payload P@f to K returned Ok and with no other client taking K, no
\* clear(K) and no further local write to K from that write's assertion to the end
\* of the read, returns P tagged f.
C1_RoundTrip ==
  [][\A t \in Threads :
       (/\ ReadLocalStep(t)
        /\ CleanWrite(arg[t].k)
        /\ t \in Unwrap(lastw[arg[t].k]).reads
        /\ Len(Unwrap(lastw[arg[t].k]).data) = 1
        /\ arg[t].formats = <<Unwrap(lastw[arg[t].k]).data[1].format>>)
       => ret'.val = Ok(Unwrap(lastw[arg[t].k]).data[1])]_vars

\* C2, first part as claimed: once this process owns K it stays the owner until
\* another client asserts ownership of K.
C2_OwnerUntilOther(k) == owner[k] = Me => owner'[k] \in {Me, Other}

\* C2, first part as amended: ... or until this process gives K up with clear(K).
C2_OwnerUntilOtherOrClear(k) ==
  (owner[k] = Me /\ owner'[k] # Me)
    => \/ owner'[k] = Other
       \/ owner'[k] = NoOwner /\ ret'.op = "clear" /\ ret'.k = k

\* C2, second part: when the server loop has processed a loss-of-ownership event
\* for K, the stored set of K is None and K's waiters are woken; a local read that
\* finds the store None returns ContentNotAvailable.
C2_LossProcessed(k) ==
  /\ (srv = "clear_notify" /\ srv' = "wait" /\ kind_of(Head(evq).selection) = Some(k))
       => /\ data'[k] = None
          /\ waiting'[k] = {}
          /\ \A u \in waiting[k] : pc'[u] = "w_woken"
  /\ \A t \in Threads :
       (ReadLocalStep(t) /\ arg[t].k = k /\ data[k] = None) => ret'.val = CNA

C3_WaitUntilOverwritten ==
  [][\A t \in Threads :
       (WaitReturnStep(t) /\ arg[t].wait = "Forever")
       => /\ IsSome(lastw[arg[t].k])
          /\ \/ Unwrap(lastw[arg[t].k]).by # t
             \/ Unwrap(lastw[arg[t].k]).since # {}]_vars

\* C4, the wake-up half: a notify_all on K's condition variable wakes every thread
\* that has released K's data lock in order to wait, be it already waiting or not
\* yet (no notification falls between dropping the data guard and waiting).
C4_NoMissedWakeup(k) ==
  NotifyStep(k) =>
    \A u \in Threads :
      (arg[u].k = k /\ pc[u] \in {"w_prewait", "w_wait"}) => pc'[u] = "w_woken"

\* C4, lock discipline as claimed: the store change is made holding K's mutex.
C4_StoreChangeUnderMutex(k) == data'[k] # data[k] => mutex[k] # "free"

\* C4, lock discipline as amended: the store change is made under K's data write
\* lock, which is kept until the notify_all, and the notify_all under K's mutex.
C4_LockDiscipline(k) ==
  /\ data'[k] # data[k] => (dlock[k] = "free" /\ dlock'[k] # "free")
  /\ NotifyStep(k) => (dlock[k] # "free" /\ mutex[k] = "free")

\* C4 as claimed.
C4_Original ==
  [][\A k \in Kinds : C4_NoMissedWakeup(k) /\ C4_StoreChangeUnderMutex(k)]_vars

\* C4 as amended: every thread blocked in write(K, _, wait) is woken by any later
\* successful local write to K and by the server loop processing a loss of K; the
\* notify_all is performed holding K's mutex and the store change holding K's data
\* write lock (kept until the notification), so no notification falls between a
\* waiter releasing the data lock and starting to wait.
C4_Amended ==
  [][\A k \in Kinds : C4_NoMissedWakeup(k) /\ C4_LockDiscipline(k)]_vars

\* C4's case: a thread has dropped its data guard and not yet started to wait
\* while the server loop, having cleared the store, is about to notify.
C4_Witness ==
  \E u \in Threads :
    /\ pc[u] = "w_prewait" /\ arg[u].wait = "Forever"
    /\ srv = "clear_notify" /\ kind_of(Head(evq).selection) = Some(arg[u].k)

\* the stored payload whose format is the earliest entry of formats present in store
preferred(store, formats) ==
  IF IsSome(store) /\ \E j \in 1..Len(formats) : HasFormat(Unwrap(store), formats[j])
    THEN LET j == Min({ n \in 1..Len(formats) : HasFormat(Unwrap(store), formats[n]) })
             i == Min({ n \in 1..Len(Unwrap(store)) :
                          Unwrap(store)[n].format = formats[j] })
         IN  Ok(Unwrap(store)[i])
    ELSE CNA

\* C5: a local read returns the stored payload whose format is the earliest entry
\* of the caller's format list present in the stored set, and ContentNotAvailable
\* if there is none or the stored set is None.
C5_FormatPreference ==
  [][\A t \in Threads :
       ReadLocalStep(t) => ret'.val = preferred(data[arg[t].k], arg[t].formats)]_vars

\* the server loop handles a SelectionRequest in this step
ServeRequestStep ==
  srv = "wait" /\ evq # <<>> /\ Head(evq).type = "SelectionRequest" /\ evq' = Tail(evq)

InSeq(x, seq) == \E i \in 1..Len(seq) : seq[i] = x

\* C8: a write made with exclude_from_history stores the sensitivity marker (and
\* one made without does not), and a TARGETS answer lists SAVE_TARGETS if and only
\* if no stored payload has the marker format.
C8_SensitiveNeverAdvertised ==
  [][/\ \A t \in Threads :
          (pc[t] = "idle" /\ pc'[t] = "w_assert")
          => (arg'[t].excl <=> HasFormat(Unwrap(data'[arg'[t].k]), MARK))
     /\ (ServeRequestStep /\ Head(evq).target = "TARGETS"
           /\ IsSome(kind_of(Head(evq).selection)))
          => LET store == data[Unwrap(kind_of(Head(evq).selection))] IN
               /\ Len(sent') = 2
               /\ sent'[1].req = "ChangeProperty"
               /\ InSeq("SAVE_TARGETS", sent'[1].value)
                    <=> ~(IsSome(store) /\ HasFormat(Unwrap(store), MARK))]_vars

\* C8's case: a TARGETS request was answered from a stored set that holds the
\* marker, and the answer does not list SAVE_TARGETS.
C8_Witness ==
  /\ sent # <<>>
  /\ sent[1].req = "ChangeProperty" /\ sent[1].type = "ATOM"
  /\ InSeq(MARK, sent[1].value)
  /\ ~InSeq("SAVE_TARGETS", sent[1].value)

\* C10: for every SelectionRequest the server loop handles, whichever selection
\* and target it names, exactly one SelectionNotify is sent to the requestor, naming
\* the destination property if data was written there and NONE otherwise.
C10_EveryRequestAnswered ==
  [][ServeRequestStep =>
       LET e == Head(evq)
           notifies == { i \in 1..Len(sent') : sent'[i].req = "SendEvent:SelectionNotify" }
           wrote == \E i \in 1..Len(sent') : sent'[i].req = "ChangeProperty"
       IN  /\ Cardinality(notifies) = 1
           /\ \A i \in notifies :
                /\ i = Len(sent')
                /\ sent'[i].requestor = e.requestor
                /\ sent'[i].selection = e.selection
                /\ sent'[i].target = e.target
                /\ sent'[i].property = IF wrote THEN e.property ELSE NONE]_vars

\* C6: a remote read tries the formats in list order, one attempt each; every
\* attempt before the last ended with ContentNotAvailable; the read returns the
\* data of the attempt that yielded data, tagged with that attempt's format; it
\* returns the error of an attempt that ended with another error, trying no later
\* format; it returns ContentNotAvailable when every format was tried in vain.
C6_RemoteReadLoop ==
  /\ Len(rlog) <= Len(rformats)
  /\ \A i \in 1..Len(rlog) : rlog[i].format = rformats[i]
  /\ \A i \in 1..(Len(rlog) - 1) : rlog[i].res = CNA
  /\ rpc # "off" => /\ ri = Len(rlog) + 1
                    /\ rlog # <<>> => rlog[Len(rlog)].res = CNA
                    /\ rres = NoRes
  /\ (rpc = "off" /\ rlog # <<>>) =>
       LET last == rlog[Len(rlog)].res IN
         IF last.tag = "Ok"
           THEN rres = last /\ rres.format = rformats[Len(rlog)]
         ELSE IF last = CNA
           THEN Len(rlog) = Len(rformats) /\ rres = CNA
         ELSE rres = last

\* C6's case: the first format was skipped after ContentNotAvailable and the second
\* attempt yielded the data the read returned.
C6_Witness ==
  /\ rpc = "off" /\ Len(rlog) = 2
  /\ rlog[1].res = CNA
  /\ rlog[2].res.tag = "Ok" /\ rres = rlog[2].res

\* the concatenation of the values of a sequence of chunks
concat(chunks) ==
  LET f[i \in 0..Len(chunks)] == IF i = 0 THEN <<>> ELSE f[i - 1] \o chunks[i].value
  IN  f[Len(chunks)]

\* a read_single returns data in this step
AttemptOkStep ==
  /\ rpc = "poll" /\ Len(rlog') = Len(rlog) + 1
  /\ rlog'[Len(rlog')].res.tag = "Ok"

\* C7: a convert attempt answered with INCR returns data only in the step that
\* reads the zero-length chunk, and the data is the concatenation, in order, of the
\* chunks the owner wrote; an answer that is not INCR returns the property's value.
C7_SegmentedAssembly ==
  [][AttemptOkStep =>
       IF using_incr
         THEN /\ osent # <<>>
              /\ prop = Some(osent[Len(osent)])
              /\ osent[Len(osent)].value = <<>>
              /\ rlog'[Len(rlog')].res.bytes = concat(osent)
         ELSE /\ IsSome(prop)
              /\ rlog'[Len(rlog')].res.bytes = Unwrap(prop).value]_vars

\* the last-handle teardown destroys the window in this step
DestroyStep == \E t \in Threads : pc[t] = "d_destroy" /\ window /\ ~window'

\* C9: when the teardown of the last Clipboard value (no other value exists) began
\* with this process owning CLIPBOARD and the stored set holding the sensitivity
\* marker, and none of its requests failed, then by the time the window is
\* destroyed no SAVE_TARGETS conversion was requested, HandoverState is Idle, the
\* teardown did not wait on the handover condition variable, and this process no
\* longer owns CLIPBOARD.
C9_SensitiveTeardown ==
  [][(DestroyStep /\ handles = 1 /\ tdn.pre /\ ~tdn.failed)
       => /\ mgr = 0
          /\ handover_state = "Idle"
          /\ ~tdn.waited
          /\ owner["Clipboard"] # Me]_vars

\* the server loop declares the handover finished in this step
FinishStep == handover_state # "Finished" /\ handover_state' = "Finished"

\* C11: HandoverState becomes Finished, and the teardown waiter is woken, only when
\* the server loop has, while the state was InProgress, both answered a request for
\* a target other than TARGETS and received a SelectionNotify of CLIPBOARD_MANAGER;
\* it becomes Finished at the second of the two whichever came first, and with only
\* one of them the state stays InProgress.
C11_HandoverBothSignals ==
  [][/\ FinishStep
          => /\ handover_state = "InProgress"
             /\ tdn'.served /\ tdn'.signalled
             /\ \A u \in Threads : pc[u] = "d_wait" => pc'[u] = "d_woken"
     /\ (handover_state = "InProgress" /\ ninst' = ninst)
          => IF tdn'.served /\ tdn'.signalled
               THEN handover_state' = "Finished"
               ELSE handover_state' = "InProgress"]_vars

\* the handover wait of thread t ends by expiry in this step
ExpiryStep(t) == pc[t] = "d_wait" /\ pc'[t] # "d_wait" /\ pc'[t] # "d_woken"

\* C12: the handover wait of the teardown always ends, when the state becomes
\* Finished or when the bounded wait expires; on expiry the teardown goes on to
\* destroy the window, no error is recorded and the state is left InProgress.
C12_HandoverBounded ==
  /\ [][\A t \in Threads :
          ExpiryStep(t) => /\ pc'[t] = "d_destroy"
                           /\ handover_state = "InProgress"
                           /\ handover_state' = "InProgress"
                           /\ ~tdn'.failed]_vars
  /\ \A t \in Threads : (pc[t] \in {"d_wait", "d_woken"}) ~> (pc[t] = "d_destroy")

\* C12's case: the teardown entered the wait, the manager sent only its
\* SelectionNotify, the wait expired and the teardown is about to destroy the window
\* with the state still InProgress.
C12_Witness ==
  /\ pc["t1"] = "d_destroy" /\ tdn.waited /\ ~tdn.failed
  /\ handover_state = "InProgress" /\ tdn.signalled /\ ~tdn.served

\* thread t's drop locks the registry and compares the share count in this step
DropDecideStep(t) == pc[t] = "idle" /\ pc'[t] \in {"d_is_owner", "d_release"}

\* C13: a drop of a Clipboard value of the registered context runs the teardown
\* if and only if no other Clipboard value of the context exists at that moment;
\* a drop that does not run it leaves the window, the registry and the server
\* thread untouched.
C13_LastHandleDetection ==
  [][\A t \in Threads :
       (DropDecideStep(t) /\ registry)
         => /\ (pc'[t] = "d_is_owner") <=> (handles = 1)
            /\ pc'[t] = "d_release"
                 => window' = window /\ registry' = registry /\ srv' = srv]_vars

\* thread t's teardown ends and drop() returns in this step
TeardownReturnStep(t) == pc[t] \in {"d_destroy", "d_join"} /\ pc'[t] = "d_release"

\* C14: once the drop of the last Clipboard value has started the teardown, it
\* returns only after the remaining steps were taken, whatever failed on the way:
\* when it returns the registry is empty and the server thread has ended.
C14_TeardownCompletes ==
  [][\A t \in Threads :
       TeardownReturnStep(t) => ~registry' /\ srv' = "stopped"]_vars

\* Clipboard::new returns a value on the registered context in this step
NewCloneStep == handles' = handles + 1 /\ ninst' = ninst

\* Clipboard::new creates a context in this step
NewInnerStep == ninst' = ninst + 1

\* a thread is between the start of the teardown and the return of its drop
InTeardown == \E u \in Threads : pc[u] \in DropPcs \ {"d_release"}

\* C15: Clipboard::new returns a value on the context the registry holds and
\* creates a context, with its window and one server thread, only when the
\* registry is empty; the registry is filled by a creation only; a value is never
\* returned on a context whose teardown has begun (a teardown in progress holds
\* the registry lock, a finished one has emptied the registry).
C15_SingletonAcquire ==
  [][/\ NewCloneStep
          => /\ registry /\ registry' /\ ~InTeardown
             /\ spawned' = spawned /\ srv' = srv /\ window' = window
     /\ NewInnerStep
          => /\ ~registry /\ registry' /\ ~InTeardown
             /\ handles' = 1 /\ spawned' = 1 /\ srv' = "wait" /\ window'
     /\ (~registry /\ registry') => NewInnerStep
     /\ spawned' # spawned => NewInnerStep]_vars

\* C15's case: after the teardown of the first context a second one was created,
\* and a further Clipboard::new returned a second value on it.
C15_Witness == ninst = 2 /\ registry /\ handles = 2 /\ tdn = NoTeardown

\* a write begins in this step
WriteBeginStep == nwrites' = nwrites + 1

\* C16: when the server loop exits the context is marked stopped, before the thread
\* gives up its share; the mark of a context is never reset; a write that begins
\* while the mark is set returns an error in the same step, with the stored sets
\* and the selection owners unchanged and no thread blocked, whatever its wait
\* policy.
C16_WriteAfterStop ==
  [][/\ srv' \in {"exiting", "stopped"} => serve_stopped'
     /\ (serve_stopped /\ ~NewInnerStep) => serve_stopped'
     /\ (WriteBeginStep /\ serve_stopped)
          => /\ ret'.op = "write" /\ ret'.val = Err("Unknown")
             /\ data' = data /\ owner' = owner /\ dlock' = dlock
             /\ pc' = pc /\ waiting' = waiting]_vars

\* C16's case: the loop exited on the destruction of the window, the thread has
\* ended, and a write that began afterwards returned the error with nothing stored.
C16_Witness ==
  /\ srv = "stopped" /\ serve_stopped /\ ~window /\ registry
  /\ ret.op = "write" /\ ret.val = Err("Unknown")
  /\ data["Clipboard"] = None /\ pc["t1"] = "idle"

\* C17: when set_selection_owner fails in write(K, payloads, wait), the write
\* returns the ClipboardOccupied error in that step: it does not report success
\* and does not go on to the notification and the wait, whatever the wait policy.
C17_OccupiedSurfaced ==
  [][\A t \in Threads :
       (pc[t] = "w_assert" /\ pc'[t] # "w_assert" /\ ret'.cause = "set_selection_owner")
         => /\ ret'.t = t /\ ret'.op = "write"
            /\ ret'.val = Err("ClipboardOccupied")
            /\ pc'[t] = "idle"
            /\ \A k \in Kinds : t \notin waiting'[k] /\ dlock'[k] # t /\ mutex'[k] # t
            /\ owner' = owner]_vars

\* C17's case: a write with wait=forever returned ClipboardOccupied after its
\* set_selection_owner failed.
C17_Witness ==
  /\ ret.op = "write" /\ ret.wait = "Forever" /\ ret.cause = "set_selection_owner"
  /\ ret.val = Err("ClipboardOccupied") /\ pc[ret.t] = "idle"

\* a read_single ends in this step
AttemptEndStep == rpc = "poll" /\ Len(rlog') = Len(rlog) + 1

\* C18: a read whose attempts all ran while CLIPBOARD had no owner returns
\* ContentNotAvailable once the connection carried its requests; the read loop of
\* an attempt takes no further turn once its deadline has passed, and the attempt
\* then ends with ContentNotAvailable; the deadline of an attempt that got no INCR
\* answer is LONG_TIMEOUT_DUR from its request.
C18_ReadDeadline ==
  [][/\ (AttemptEndStep /\ rpc' = "off" /\ owner["Clipboard"] = NoOwner)
          => rres' = CNA
     /\ (/\ rpc = "poll" /\ now >= timeout_end
         /\ <<rpc, ri, rlog, using_incr, incr_data, timeout_end>>' #
              <<rpc, ri, rlog, using_incr, incr_data, timeout_end>>)
          => /\ AttemptEndStep
             /\ rlog'[Len(rlog')].res = CNA
             /\ revq' = revq
     /\ (rpc = "poll" /\ ~using_incr) => timeout_end = LONG_TIMEOUT_DUR
     /\ (rpc = "poll" /\ now < timeout_end /\ revq = <<>>) => ~AttemptEndStep]_vars

\* C18's case: the owner never answered the convert request, no event reached the
\* reader, and the attempt ended with ContentNotAvailable at LONG_TIMEOUT_DUR.
C18_Witness ==
  /\ owner["Clipboard"] = Other
  /\ rlog # <<>> /\ rlog[Len(rlog)].res = CNA
  /\ revq = <<>> /\ ~using_incr
  /\ timeout_end = LONG_TIMEOUT_DUR /\ now >= timeout_end

\* clear(K) called by t returns val in this step
ClearStep(t, k, val) ==
  /\ pc[t] = "idle" /\ ret'.t = t /\ ret'.op = "clear" /\ ret'.k = k
  /\ ret'.val = val

DataRequestFor(k) ==
  /\ evq # <<>> /\ Head(evq).type = "SelectionRequest"
  /\ kind_of(Head(evq).selection) = Some(k) /\ Head(evq).target # "TARGETS"

\* C20: a thread blocked in the wait of write(K, P, wait) holds neither K's data
\* lock nor K's mutex; while it is blocked and no other caller holds the data
\* lock, the server loop can handle a data request for K that heads its queue;
\* and a data request for K handled while the thread is blocked is answered from
\* P: with the bytes of P's payload of the requested target, or with a refusal if
\* P has no such payload.
C20_ServingWhileWaiting ==
  /\ [](\A t \in Threads :
          pc[t] = "w_wait"
          => /\ dlock[arg[t].k] # t /\ mutex[arg[t].k] # t
             /\ (srv = "wait" /\ DataRequestFor(arg[t].k)
                   /\ dlock[arg[t].k] \notin Threads) => ENABLED ServeRequest)
  /\ [][\A t \in Threads :
          (pc[t] = "w_wait" /\ ServeRequestStep /\ DataRequestFor(arg[t].k))
          => sent' = data_reply(Head(evq), Some(arg[t].data))]_vars

\* C20's case: a data request for CLIPBOARD was handled while t1 was blocked in
\* the wait of its write, t1 is still blocked, and the answer carries P's bytes.
C20_Witness ==
  /\ pc["t1"] = "w_wait" /\ arg["t1"].k = "Clipboard"
  /\ ret.op = "serve" /\ ret.t = "t1" /\ ret.k = "Clipboard"
  /\ Len(sent) = 2 /\ sent[1].req = "ChangeProperty"
  /\ \E i \in 1..Len(arg["t1"].data) : sent[1].value = arg["t1"].data[i].bytes

\* the wait policy the last wait()/wait_until() call of q asks for
LastSet(q) ==
  IF q = <<>> THEN "None" ELSE IF q[Len(q)] = "wait" THEN "Forever" ELSE "Until"

\* C21: the wait policy of a write is the one of the last wait()/wait_until() call
\* on its builder, and none without such a call; a write with wait=none returns Ok
\* in the step that follows its assertion, without waiting; a write with
\* wait=until(deadline) that waits returns, and it returns Ok, whether it was woken
\* or its deadline passed.
C21_WaitNoneAndDeadline ==
  /\ [][\A t \in Threads :
          /\ (pc[t] = "idle" /\ pc'[t] = "w_assert")
               => arg'[t].wait = LastSet(arg'[t].set)
          /\ (pc[t] = "w_notify" /\ arg[t].wait = "None" /\ pc'[t] # pc[t])
               => /\ pc'[t] = "idle" /\ waiting' = [waiting EXCEPT ![arg[t].k] = {}]
                  /\ ret'.t = t /\ ret'.val = OkUnit
          /\ (pc[t] \in {"w_wait", "w_woken"} /\ arg[t].wait = "Until"
                /\ pc'[t] = "idle")
               => ret'.t = t /\ ret'.val = OkUnit]_vars
  /\ \A t \in Threads :
       (pc[t] = "w_wait" /\ arg[t].wait = "Until") ~> (pc[t] = "idle")

\* C21's case: a write built with wait() and then wait_until(deadline) has returned
\* Ok after its wait while the store still held its payload and nothing had
\* happened to the selection.
C21_Witness ==
  /\ ret.op = "write" /\ ret.set = <<"wait", "wait_until">> /\ ret.wait = "Until"
  /\ ret.val = OkUnit
  /\ IsSome(lastw[ret.k]) /\ Unwrap(lastw[ret.k]).since = {}
  /\ data[ret.k] = Some(Unwrap(lastw[ret.k]).data)
  /\ owner[ret.k] = Me

\* the server loop takes the event at the head of its queue in this step
EventStep == srv = "wait" /\ evq # <<>> /\ evq' = Tail(evq)

\* the server loop leaves its loop in this step
LoopEndStep == srv \notin {"exiting", "stopped"} /\ srv' \in {"exiting", "stopped"}

\* C22, the part that holds: a step that handles an event other than DestroyNotify
\* (a request served or failed, a loss, a SelectionNotify, any other event, for
\* whichever selection) leaves the loop running.
C22_EventsSkipped ==
  (EventStep /\ Head(evq).type # "DestroyNotify") => ~LoopEndStep /\ ~serve_stopped'

\* C22 as claimed: the loop ends only in a step that takes a DestroyNotify.
C22_Original ==
  [][/\ C22_EventsSkipped
     /\ LoopEndStep => EventStep /\ Head(evq).type = "DestroyNotify"]_vars

\* C22 as amended: the loop ends only in a step that takes a DestroyNotify or in
\* one in which waiting for the next event fails (no event is taken); every other
\* event, handled with or without an error, leaves the loop running.
C22_Amended ==
  [][/\ C22_EventsSkipped
     /\ LoopEndStep => \/ EventStep /\ Head(evq).type = "DestroyNotify"
                       \/ evq' = evq /\ sent' = sent
     /\ LoopEndStep => serve_stopped']_vars

\* C22's case: the handling of a request has just failed after its property was
\* written, and the loop is waiting for the next event.
C22_Witness ==
  /\ srv = "wait" /\ ~serve_stopped
  /\ Len(sent) = 1 /\ sent[1].req = "ChangeProperty"
  /\ owner["Clipboard"] = Me

\* the path a line of a URI list stands for: for a line that begins with file://
\* the rest of the line with its percent-escapes decoded; none for a line without
\* the prefix or whose decoded bytes are not UTF-8
PathOfLine(text) ==
  CASE text = <<"f", "i", "l", "e", ":", "/", "/", "/", "a">>
       -> Some(Bytes(<<"/", "a">>))
  [] text = <<"f", "i", "l", "e", ":", "/", "/", "/", "a", "%", "2", "0", "b">>
       -> Some(Bytes(<<"/", "a", " ", "b">>))
  [] text = <<"f", "i", "l", "e", ":", "/", "/", "/", "a", "%", "3", "F">>
       -> Some(Bytes(<<"/", "a", "?">>))
  [] text = <<"f", "i", "l", "e", ":", "/", "/", "/", "a", "%", "3", "f">>
       -> Some(Bytes(<<"/", "a", "?">>))
  [] text = <<"f", "i", "l", "e", ":", "/", "/", "/", "a", "%", "5", "C">>
       -> Some(Bytes(<<"/", "a", "\\">>))
  [] text = <<"f", "i", "l", "e", ":", "/", "/", "/", "%", "C", "3", "%", "A", "9">>
       -> Some(<<47, 195, 169>>)
  [] text = <<"f", "i", "l", "e", ":", "/", "/", "/", "%", "2">>
       -> Some(Bytes(<<"/", "%", "2">>))
  [] text = <<"f", "i", "l", "e", ":", "/", "/", "/", "%", "2", "5", "2", "0">>
       -> Some(Bytes(<<"/", "%", "2", "0">>))
  [] text = <<"f", "i", "l", "e", ":", "/", "/", "/", "a", "%", "0", "A", "b">>
       -> Some(<<47, 97, 10, 98>>)
  [] text = <<"f", "i", "l", "e", ":", "/", "/">>
       -> Some(Bytes(<<>>))
  [] OTHER -> None

\* C23: paths_from_uri_list returns, in the order of the lines, the path of each
\* line that begins with file://: the rest of the line with every percent-escape
\* decoded; the other lines, and those whose decoded bytes are not valid UTF-8,
\* add nothing and do not affect the other entries.
C23_UriListPaths ==
  IsSome(paths) =>
    LET f[i \in 0..Len(ulines)] ==
          IF i = 0 THEN <<>> ELSE f[i - 1] \o PathOfLine(ulines[i].text)
    IN  Unwrap(paths) = f[Len(ulines)]

\* C23's case: of two lines ending with CRLF the first decodes to bytes that are
\* not UTF-8 and is left out, the second gives the path "/a b".
C23_Witness ==
  /\ Len(ulines) = 2
  /\ ulines[1] = [text |-> <<"f", "i", "l", "e", ":", "/", "/", "/", "%", "F", "F">>, end |-> "CRLF"]
  /\ ulines[2] = [text |-> <<"f", "i", "l", "e", ":", "/", "/", "/", "a", "%", "2", "0", "b">>, end |-> "CRLF"]
  /\ paths = Some(<<Bytes(<<"/", "a", " ", "b">>)>>)

\* C24: when a write asserts ownership of K the store of K already holds its
\* payload set and the writer holds K's data lock; and a data request for K that
\* the server loop handles after a write asserted ownership of K is answered from
\* the store, which holds the payload set of the latest write that asserted
\* ownership or of a later local write, never None.
C24_StoreBeforeAssert ==
  [][/\ \A t \in Threads :
          (pc[t] = "w_assert" /\ pc'[t] = "w_notify")
          => /\ data[arg[t].k] = Some(arg[t].data)
             /\ dlock[arg[t].k] = t /\ dlock'[arg[t].k] = t
     /\ \A k \in Kinds :
          (ServeRequestStep /\ DataRequestFor(k) /\ IsSome(lastw[k]))
          => /\ IsSome(data[k])
             /\ \/ data[k] = Some(Unwrap(lastw[k]).data)
                \/ "write" \in Unwrap(lastw[k]).since
             /\ sent' = data_reply(Head(evq), data[k])]_vars

\* an event that does not belong to the running convert request: it names another
\* window, or it is a property change of another property, one that is no new-value
\* transition, or one that comes before segmented mode has started
NotOfRequest(e) ==
  \/ e.window # "READER"
  \/ /\ e.type = "PropertyNotify"
     /\ \/ e.property # "ARBOARD_CLIPBOARD" \/ e.state # "NEW_VALUE" \/ ~using_incr

\* C25: an answer to the request with no destination property or with another format
\* ends the attempt with ContentNotAvailable, and an event that does not belong to
\* the request (another window, another property, no new-value transition, or before
\* segmented mode) does not end the attempt, raises no error and leaves the data
\* being assembled alone
C25_StaleEventsIgnored ==
  [][RPoll =>
       LET e == Head(revq)
       IN  /\ (/\ e.type = "SelectionNotify" /\ e.window = "READER"
               /\ (e.property = NONE \/ e.target # rformats[ri]))
                => /\ Len(rlog') = Len(rlog) + 1
                   /\ rlog'[Len(rlog')] = [format |-> rformats[ri], res |-> CNA]
           /\ NotOfRequest(e)
                => UNCHANGED <<rpc, ri, rlog, rres, using_incr, incr_data, timeout_end,
                               prop>>]_vars

\* the same with the events that name another window left out
C25_OwnWindowEvents ==
  [][RPoll =>
       LET e == Head(revq)
       IN  /\ (/\ e.type = "SelectionNotify" /\ e.window = "READER"
               /\ (e.property = NONE \/ e.target # rformats[ri]))
                => /\ Len(rlog') = Len(rlog) + 1
                   /\ rlog'[Len(rlog')] = [format |-> rformats[ri], res |-> CNA]
           /\ (NotOfRequest(e) /\ e.window = "READER")
                => UNCHANGED <<rpc, ri, rlog, rres, using_incr, incr_data, timeout_end,
                               prop>>]_vars

\* C26: when an attempt switches to segmented mode its deadline becomes the short
\* bound counted from that moment, every non-empty chunk resets the deadline to the
\* short bound counted from its receipt, so in segmented mode the deadline is never
\* more than the short bound away
C26_SegmentedDeadline ==
  [][RPoll =>
       /\ (~using_incr /\ using_incr') => timeout_end' = now + SHORT_TIMEOUT_DUR
       /\ incr_data' # incr_data => timeout_end' = now + SHORT_TIMEOUT_DUR
       /\ (rpc' = "poll" /\ using_incr') => timeout_end' <= now' + SHORT_TIMEOUT_DUR]_vars

\* the part of C26 about the chunks: a non-empty chunk resets the deadline to the short
\* bound counted from its receipt
C26_ChunkDeadline ==
  [][(RPoll /\ incr_data' # incr_data) => timeout_end' = now + SHORT_TIMEOUT_DUR]_vars

\* C27: the handover is started only by a teardown that found this process the owner
\* of CLIPBOARD and the store of CLIPBOARD present; a teardown that finds another
\* owner or no stored set sends no request, leaves HandoverState as it is and goes on
\* to destroy the window without waiting; PRIMARY plays no part; and a context sends
\* at most one request to the manager, HandoverState leaving Idle only with it
C27_HandoverPrecondition ==
  [][/\ \A t \in Threads :
          /\ (pc[t] = "d_is_owner" /\ pc'[t] # pc[t] /\ owner["Clipboard"] # Me)
               => /\ pc'[t] = "d_destroy"
                  /\ UNCHANGED <<mgr, handover_state>>
          /\ (pc[t] = "d_read_data" /\ pc'[t] # pc[t] /\ data["Clipboard"] = None)
               => /\ pc'[t] = "d_destroy"
                  /\ UNCHANGED <<mgr, handover_state>>
          /\ (pc'[t] = "d_read_data" /\ pc[t] # pc'[t])
               => pc[t] = "d_is_owner" /\ owner["Clipboard"] = Me
          /\ (pc'[t] = "d_convert" /\ pc[t] # pc'[t])
               => pc[t] = "d_read_data" /\ data["Clipboard"] # None
          /\ (pc'[t] = "d_wait" /\ pc[t] # pc'[t]) => pc[t] = "d_convert"
     /\ (mgr' > mgr \/ (handover_state = "Idle" /\ handover_state' # "Idle"))
          => \E t \in Threads : pc[t] = "d_convert" /\ pc'[t] # pc[t]
     /\ mgr' <= 1
     /\ handover_state' # "Idle" => mgr' = 1]_vars

\* a teardown found CLIPBOARD not owned while this process owns PRIMARY and holds
\* its data: it goes on to destroy the window with no request sent and
\* HandoverState Idle
C27_Witness ==
  /\ \E t \in Threads : pc[t] = "d_destroy"
  /\ owner["Clipboard"] # Me /\ data["Clipboard"] = None
  /\ owner["Primary"] = Me /\ data["Primary"] # None
  /\ ~tdn.failed /\ mgr = 0 /\ handover_state = "Idle"

\* a step of the server loop that handles the event at the head of the queue
ServerLoopStep == evq # <<>> /\ evq' = Tail(evq)

\* a step of a thread in the teardown path
TeardownStep == \E t \in Threads : pc[t] \in DropPcs \ {"d_wait"} /\ pc'[t] # pc[t]

\* C28 as stated: every change of HandoverState is made by the server loop, none by
\* the teardown path
C28_Original ==
  [][handover_state' # handover_state => ServerLoopStep /\ ~TeardownStep]_vars

\* C28 amended: HandoverState goes from Idle to InProgress in the teardown path, by the
\* thread that sent the request and enters the wait; it goes from InProgress to
\* Finished in the server loop only; there is no other change; and the wait of the
\* teardown path can always end
C28_Amended ==
  [][/\ handover_state' # handover_state
          => \/ /\ handover_state = "Idle" /\ handover_state' = "InProgress"
                /\ \E t \in Threads : pc[t] = "d_convert" /\ pc'[t] = "d_wait"
                /\ ~ServerLoopStep
             \/ /\ handover_state = "InProgress" /\ handover_state' = "Finished"
                /\ ServerLoopStep /\ ~TeardownStep
     /\ \A t \in Threads : pc[t] \in {"d_wait", "d_woken"} => ENABLED DropWaitEnd(t)]_vars

\* both transitions happened: the handover is Finished and the waiting thread woken
C28_Witness ==
  handover_state = "Finished" /\ \E t \in Threads : pc[t] = "d_woken"

\* the step is the SelectionClear arm of the server loop storing None for kind k
LossStoreStep(k) ==
  /\ srv = "wait" /\ srv' = "clear_notify"
  /\ kind_of(Head(evq).selection) = Some(k)

\* C29: the stored set of a kind changes only in a write to that kind or in the
\* handling of a loss of that kind, and no step changes the stores, locks or waiters
\* of two kinds; a thread blocked in a write to K leaves the wait only on a
\* notification for K; a loss event naming a selection of none of the kinds changes
\* no store and wakes no thread
C29_SelectionIndependence ==
  [][/\ \A k \in Kinds :
          data'[k] # data[k]
            => \/ \E t \in Threads : pc[t] = "idle" /\ pc'[t] = "w_assert" /\ arg'[t].k = k
               \/ LossStoreStep(k)
     /\ Cardinality({ k \in Kinds :
                       <<data'[k], dlock'[k], mutex'[k], stamp'[k], waiting'[k]>>
                         # <<data[k], dlock[k], mutex[k], stamp[k], waiting[k]>> }) <= 1
     /\ \A t \in Threads :
          (pc[t] = "w_wait" /\ pc'[t] # pc[t]) => NotifyStep(arg[t].k)
     /\ (/\ evq # <<>> /\ evq' = Tail(evq) /\ Head(evq).type = "SelectionClear"
         /\ kind_of(Head(evq).selection) = None)
          => UNCHANGED <<data, dlock, mutex, stamp, waiting, pc>>]_vars

\* a thread is blocked in its write to CLIPBOARD, whose store it wrote, while the
\* write of another thread to PRIMARY has just returned Ok
C29_Witness ==
  /\ pc["t1"] = "w_wait" /\ arg["t1"].k = "Clipboard" /\ data["Clipboard"] # None
  /\ ret.t = "t2" /\ ret.op = "write" /\ ret.k = "Primary" /\ ret.val = OkUnit
  /\ data["Primary"] # None

\* C30: whenever a Clipboard value is dropped, the share count its drop observes is at
\* least MIN_OWNERS, and it is MIN_OWNERS exactly when the value is the only one
C30_MinimumOwners ==
  [][\A t \in Threads :
       DropDecideStep(t)
         => /\ strong_count >= MIN_OWNERS
            /\ (strong_count = MIN_OWNERS) <=> (handles = 1)]_vars

\* C31: while this process owns K through a write that returned Ok, with no other
\* client having taken K, no clear(K) and no further local write since that write
\* asserted ownership, the store of K is present; a SelectionClear caused before the
\* write and handled after it does not empty the store
C31_OwnerImpliesData ==
  \A k \in Kinds : (CleanWrite(k) /\ owner[k] = Me) => data[k] # None

\* a write returns an error in this step
WriteErrStep == ret'.op = "write" /\ ret'.val.tag = "Err"

\* C32, for the first write of the instance, which is called in the initial state of
\* the stores: when it returns an error the store of its kind is as before the
\* call, None, no change time is recorded and this process does not own the kind
C32_FailedWriteNoOp ==
  [][(WriteErrStep /\ nwrites' = 1)
       => /\ data'[ret'.k] = None
          /\ stamp'[ret'.k] = None
          /\ owner'[ret'.k] # Me]_vars

\* the parts of C32 that do not concern the store: a write that returns an error
\* records no change time, asserts no ownership and wakes no waiter in the step it
\* returns, and a write that finds the server loop stopped changes nothing
C32_FailedWriteRest ==
  [][WriteErrStep
       => /\ UNCHANGED <<stamp, owner, waiting, data>>
          /\ \A u \in Threads : u # ret'.t => pc'[u] = pc[u]
          /\ nwrites' = 1 => stamp'[ret'.k] = None /\ owner'[ret'.k] # Me]_vars

\* the targets the TARGETS answer lists for a store
Listed(store) == targets_reply(Event("SelectionRequest", "-", "TARGETS"), store)[1].value

\* the requests sent for event e are a success carrying the bytes of a payload of store
ServedFrom(e, store, reqs) ==
  /\ Len(reqs) = 2
  /\ reqs[1].req = "ChangeProperty" /\ reqs[1].type = e.target
  /\ \E i \in 1..Len(Unwrap(store)) : reqs[1].value = Unwrap(store)[i].bytes
  /\ reqs[2].req = "SendEvent:SelectionNotify" /\ reqs[2].property = e.property

\* C33: a data request for K whose target the TARGETS answer lists for the present
\* store of K, other than TARGETS and SAVE_TARGETS, is answered with success and the
\* bytes of a stored payload; the aliases UTF8_MIME_0 and UTF8_MIME_1 included
C33_AdvertisedServable ==
  [][\A k \in Kinds :
       (/\ ServeRequestStep /\ DataRequestFor(k) /\ IsSome(data[k])
        /\ InSeq(Head(evq).target, Listed(data[k]))
        /\ Head(evq).target \notin {"TARGETS", "SAVE_TARGETS"})
       => ServedFrom(Head(evq), data[k], sent')]_vars

\* the same for the targets that are the format of a stored payload
C33_StoredServable ==
  [][\A k \in Kinds :
       (/\ ServeRequestStep /\ DataRequestFor(k) /\ IsSome(data[k])
        /\ HasFormat(Unwrap(data[k]), Head(evq).target))
       => ServedFrom(Head(evq), data[k], sent')]_vars

\* the steps thread t can take inside a call
ThreadSteps(t) ==
  \/ WriteAssert(t) \/ WriteNotify(t) \/ WriteDropGuard(t) \/ WriteWait(t)
  \/ WriteTimeout(t) \/ WriteReturn(t) \/ ReadLocal(t)
  \/ DropIsOwner(t) \/ DropReadData(t) \/ DropClear(t) \/ DropConvert(t)
  \/ DropWaitEnd(t) \/ DropDestroy(t) \/ DropJoin(t) \/ DropRelease(t)

\* the steps of the server loop on an event it has received
ServerSteps ==
  \/ ServeClearStore \/ ServeClearNotify \/ ServeRequest \/ ServeNotify
  \/ ServeDestroy \/ ServeExit

\* agent a, a thread or the server loop, can take a step
Running(a) == IF a = "server" THEN ENABLED ServerSteps ELSE ENABLED ThreadSteps(a)

\* agent a is inside a call or the handling of an event and can take no step; a
\* thread blocked on data_changed by a write that waits forever is not counted, it
\* waits for no lock
Blocked(a) ==
  /\ ~Running(a)
  /\ IF a = "server" THEN srv = "clear_notify" \/ (srv = "wait" /\ evq # <<>>)
                      ELSE pc[a] \notin {"idle", "w_wait"}

\* the agent that holds the lock, or must end, for agent a to go on
WaitsFor(a) ==
  IF a = "server"
    THEN LET k == Unwrap(kind_of(Head(evq).selection))
         IN  IF srv = "clear_notify" THEN mutex[k] ELSE dlock[k]
    ELSE CASE pc[a] \in {"w_notify", "w_woken"} -> mutex[arg[a].k]
           [] pc[a] = "r_local" -> dlock[arg[a].k]
           [] pc[a] = "d_read_data" -> dlock[handover_selection]
           [] pc[a] = "d_join" -> "server"
           [] OTHER -> "nobody"

\* C34: the locks are taken in one order, the data lock before the mutex of the
\* selection, and are held only by agents inside a call; an agent that can take no
\* step waits for an agent that can take one, or that waits for such an agent; and
\* the server loop a teardown joins has ended, is ending, or has the DestroyNotify
\* in its queue
C34_DeadlockFreedom ==
  /\ \A k \in Kinds :
       /\ mutex[k] \in Threads
            => pc[mutex[k]] \in {"w_drop", "w_prewait"} /\ arg[mutex[k]].k = k
       /\ dlock[k] \in Threads
            => pc[dlock[k]] \in {"w_assert", "w_notify", "w_drop", "d_clear"}
       /\ dlock[k] = "server" => srv = "clear_notify"
  /\ glock \in Threads => pc[glock] \in DropPcs \ {"d_release"}
  /\ \A a \in Threads \cup {"server"} :
       Blocked(a)
         => /\ WaitsFor(a) \in Threads \cup {"server"}
            /\ \/ Running(WaitsFor(a))
               \/ /\ Blocked(WaitsFor(a))
                  /\ WaitsFor(WaitsFor(a)) \in Threads \cup {"server"}
                  /\ Running(WaitsFor(WaitsFor(a)))
  /\ \A t \in Threads :
       pc[t] = "d_join"
         => \/ srv \in {"exiting", "stopped"}
            \/ \E i \in 1..Len(evq) : evq[i].type = "DestroyNotify"

\* a chain of two waits: a local read waits for the data lock the server loop holds
\* in the SelectionClear arm, the server loop waits for the mutex a write holds
\* between its notification and its wait, and that write can go on
C34_Witness ==
  /\ Blocked("t2") /\ pc["t2"] = "r_local" /\ WaitsFor("t2") = "server"
  /\ Blocked("server") /\ WaitsFor("server") = "t1"
  /\ Running("t1")

\* thread t's wait on handover_cv is ended by a notification in this step
WakeStep(t) == pc[t] = "d_wait" /\ pc'[t] = "d_woken"

\* thread t returns from wait_for without having timed out in this step
NotifiedReturnStep(t) == pc[t] = "d_woken" /\ pc'[t] # "d_woken"

\* C35: a wait on handover_cv is ended by a notification only in the step of the
\* server loop that takes HandoverState from InProgress to Finished, a thread is
\* woken from nowhere but the wait it entered after sending the save request, and
\* while a woken thread has not yet returned from the wait, and when it returns,
\* HandoverState is Finished: the branch after the two returns is never taken.
C35_UnreachableBranch ==
  [][\A t \in Threads :
       /\ (pc'[t] = "d_woken" /\ pc[t] # "d_woken") => WakeStep(t)
       /\ WakeStep(t) => /\ ServerLoopStep /\ ~TeardownStep
                         /\ handover_state = "InProgress"
                         /\ handover_state' = "Finished"
                         /\ tdn.waited /\ mgr = 1
       /\ pc[t] = "d_woken" => handover_state = "Finished"
       /\ NotifiedReturnStep(t) => /\ handover_state' = "Finished"
                                   /\ pc'[t] = "d_destroy"
                                   /\ ~tdn'.failed]_vars

\* the manager's notification and a data request were both handled during the
\* wait, the waiting thread was notified and is about to return from wait_for
C35_Witness ==
  /\ pc["t1"] = "d_woken" /\ handover_state = "Finished"
  /\ written /\ notified /\ tdn.waited /\ tdn.served /\ tdn.signalled


\* the three things the handover bookkeeping of the server loop writes
HandoverBook == <<written, notified, handover_state>>

\* the server loop handles a SelectionNotify of the manager selection in this step
ManagerNotifyStep ==
  /\ ServerLoopStep /\ Head(evq).type = "SelectionNotify"
  /\ Head(evq).selection = "CLIPBOARD_MANAGER"

\* the answer to the request handled in this step failed on the way
FailedServeStep == ServeRequestStep /\ sent' # handle_selection_request(Head(evq), data)

\* C36, the events that do not count: a data request served before the save
\* request was sent, a request for TARGETS, a request whose answer failed, and a
\* SelectionNotify of the manager selection handled under Idle or Finished leave
\* the written and notified flags and HandoverState as they were; the written flag
\* is set only by a served data request and the notified flag only by a manager
\* notification, both under InProgress; the state becomes Finished only in the
\* server loop with both flags set.
C36_NotCounted ==
  [][/\ (ServeRequestStep /\ mgr = 0) => UNCHANGED HandoverBook
     /\ (ServeRequestStep /\ Head(evq).target = "TARGETS") => UNCHANGED HandoverBook
     /\ FailedServeStep => UNCHANGED HandoverBook
     /\ (ManagerNotifyStep /\ handover_state \in {"Idle", "Finished"})
          => UNCHANGED HandoverBook
     /\ (written' /\ ~written)
          => /\ ServeRequestStep /\ Head(evq).target # "TARGETS"
             /\ handover_state = "InProgress"
     /\ (notified' /\ ~notified) => ManagerNotifyStep /\ handover_state = "InProgress"
     /\ (handover_state' = "Finished" /\ handover_state # "Finished")
          => ServerLoopStep /\ written' /\ notified' /\ mgr = 1]_vars

\* C36 as stated: the events above do not count, and the state is brought to
\* Finished only by a data request and a manager notification that arrived after
\* the save request was sent: an event that arrived before it sets neither flag and
\* does not finish the handover.
C36_OnlyHandoverEvents ==
  [][/\ (ServeRequestStep /\ mgr = 0) => UNCHANGED HandoverBook
     /\ (ServeRequestStep /\ Head(evq).target = "TARGETS") => UNCHANGED HandoverBook
     /\ FailedServeStep => UNCHANGED HandoverBook
     /\ (ManagerNotifyStep /\ handover_state \in {"Idle", "Finished"})
          => UNCHANGED HandoverBook
     /\ (ServerLoopStep /\ Head(evq).requestor = "EARLY") => UNCHANGED HandoverBook]_vars

====
